---------------------------- MODULE Spec2Model ----------------------------
(***************************************************************************)
(* Browser chat storage: four services persisting JSON collections in the  *)
(* browser's localStorage.                                                 *)
(*                                                                         *)
(*   BrowserChatMessageStorage  (Message Store)                            *)
(*   BrowserChatHistoryService  (Chat History Service)                     *)
(*   BrowserCheckpointService   (Checkpoint Service)                       *)
(*   BrowserAgentStateStorage   (Agent State Storage)                      *)
(*                                                                         *)
(* Every public method is one action: the methods are synchronous from     *)
(* entry to return, so a call is atomic with respect to other calls of the *)
(* same page.  A call draws its arguments, and the set of its setItem      *)
(* calls that raise (quota exceeded), from small sets.  Two pages sharing  *)
(* the storage are not atomic with respect to each other: SpecTwoTabs      *)
(* follows storeChat one localStorage access at a time.                    *)
(*                                                                         *)
(* Representation of JavaScript values:                                    *)
(*   - a string is a sequence of one-character strings;                    *)
(*   - "value or null/undefined" is a sequence of length 0 or 1: NULL is   *)
(*     <<>> and Item(v) is <<v>>;                                          *)
(*   - a numeric field that the code only tests with || or ! holds 0 when  *)
(*     it is absent (0 and undefined are both falsy);                      *)
(*   - a stored JSON text is represented by the value it parses to, and a  *)
(*     stored text that is no JSON by Unparsable(text).  Only storage left *)
(*     by an earlier page load holds such a text, and only the reads are   *)
(*     modelled on it.                                                     *)
(***************************************************************************)
EXTENDS Integers, Sequences, FiniteSets, TLC

VARIABLES
    service,        \* the service instance the behaviour exercises
    now,            \* the value Date.now() returns
    localStorage,   \* key -> NULL, Item(parsed JSON value) or Unparsable(text)
    call,           \* the last call: its name, arguments, setItem calls that raised
    ret,            \* how the last call completed and what it returned
    allocated,      \* history: ids getNextId handed out since construction or the last clearAllData
    createdLog,     \* history: per session, the createCheckpoint calls since its last clear
    callerMessage,  \* the caller's own message object (mutable by the caller)
    tabs            \* per page sharing the storage: where its storeChat call stands

vars == <<service, now, localStorage, call, ret, allocated, createdLog, callerMessage, tabs>>

-----------------------------------------------------------------------------
(* Bounds of the model *)

MaxTime == 2            \* the clock runs from 1 to MaxTime
MaxId == 3              \* ids getNextId hands out between two clearAllData calls
MaxLog == 1             \* messages in the History Service's logs, all sessions together
MaxCheckpoints == 2     \* createCheckpoint calls, storeCheckpoint records
MaxStored == 3          \* messages of a History Service log that the reads find stored
MaxSessions == 2        \* sessions of the History Service's list created one after the other

-----------------------------------------------------------------------------
(* JavaScript values *)

NULL == <<>>
Item(v) == <<v>>
OrElse(item, default) == IF item = NULL THEN default ELSE item[1]

Min(a, b) == IF a < b THEN a ELSE b
SetMax(S) == CHOOSE x \in S : \A y \in S : y <= x

Rep(c, n) == [i \in 1..n |-> c]

DigitChar == <<"0", "1", "2", "3", "4", "5", "6", "7", "8", "9">>

RECURSIVE toString(_)
toString(n) ==
    IF n < 10 THEN <<DigitChar[n + 1]>>
    ELSE toString(n \div 10) \o <<DigitChar[(n % 10) + 1]>>

IsSpace(c) == c \in {" ", "\n", "\t"}
IsLineTerminator(c) == c = "\n"

RECURSIVE TrimLeft(_)
TrimLeft(s) ==
    IF s # <<>> /\ IsSpace(Head(s)) THEN TrimLeft(Tail(s)) ELSE s

RECURSIVE TrimRight(_)
TrimRight(s) ==
    IF s # <<>> /\ IsSpace(s[Len(s)]) THEN TrimRight(SubSeq(s, 1, Len(s) - 1)) ELSE s

Trim(s) == TrimRight(TrimLeft(s))

Substring(s, from, to) == SubSeq(s, from + 1, Min(to, Len(s)))

\* Array.prototype.sort with the comparator (a, b) => key(b) - key(a): a stable
\* sort, descending by key.  keys[i] is the key of seq[i].
StableSortDesc(seq, keys) ==
    LET n == Len(seq)
        pos(i) == 1 + Cardinality({j \in 1..n : \/ keys[j] > keys[i]
                                                \/ (keys[j] = keys[i] /\ j < i)})
    IN  [p \in 1..n |-> seq[CHOOSE i \in 1..n : pos(i) = p]]

\* Array.prototype.reverse
Reverse(seq) == [i \in 1..Len(seq) |-> seq[Len(seq) + 1 - i]]

\* Array.prototype.slice(0, end): a negative end counts from the end of the array.
SliceFromStart(seq, end) ==
    IF end < 0
    THEN SubSeq(seq, 1, IF Len(seq) + end > 0 THEN Len(seq) + end ELSE 0)
    ELSE SubSeq(seq, 1, Min(end, Len(seq)))

\* String.prototype.toLowerCase on the letters of the ASCII alphabet.
UpperLetters ==
    <<"A", "B", "C", "D", "E", "F", "G", "H", "I", "J", "K", "L", "M",
      "N", "O", "P", "Q", "R", "S", "T", "U", "V", "W", "X", "Y", "Z">>
LowerLetters ==
    <<"a", "b", "c", "d", "e", "f", "g", "h", "i", "j", "k", "l", "m",
      "n", "o", "p", "q", "r", "s", "t", "u", "v", "w", "x", "y", "z">>
toLowerCase(s) ==
    [i \in 1..Len(s) |->
        IF \E k \in 1..Len(UpperLetters) : UpperLetters[k] = s[i]
        THEN LowerLetters[CHOOSE k \in 1..Len(UpperLetters) : UpperLetters[k] = s[i]]
        ELSE s[i]]

\* String.prototype.includes
Includes(s, part) ==
    \E i \in 0..(Len(s) - Len(part)) : SubSeq(s, i + 1, i + Len(part)) = part

-----------------------------------------------------------------------------
(* localStorage *)

Services == {"MessageStore", "HistoryService", "CheckpointService", "AgentStateStorage"}

NoId == <<>>
Key(name, id) == <<name, id>>

sessionsKey == Key("chat_sessions", NoId)
messagesKey == Key("chat_messages", NoId)
countersKey == Key("chat_counters", NoId)

MessageStoreKeys == {sessionsKey, messagesKey, countersKey}

getItem(ls, key) == ls[key]
setItem(ls, key, value) == [ls EXCEPT ![key] = Item(value)]
removeItem(ls, key) == [ls EXCEPT ![key] = NULL]

\* A stored text that JSON.parse rejects with a SyntaxError.
Unparsable(text) == <<text, "SyntaxError">>
IsUnparsable(item) == Len(item) = 2

\* try { stored ? JSON.parse(stored) : [] } catch { [] }
ParsedOrEmpty(item) == IF item = NULL \/ IsUnparsable(item) THEN <<>> ELSE item[1]

-----------------------------------------------------------------------------
(* Message Store: BrowserChatMessageStorage *)

TitleLimit == 100

EmptyCounters == [sessionId |-> 0, messageId |-> 0]
InitialCounters == [sessionId |-> 1, messageId |-> 1]

\* initializeStorage: seeds each of the three keys that is missing.  raises is
\* the set of its setItem calls (1 sessions, 2 messages, 3 counters) that
\* raise; the first one that raises ends the method with the exception.
initializeStorage(ls, raises) ==
    LET needS == getItem(ls, sessionsKey) = NULL
        needM == getItem(ls, messagesKey) = NULL
        needC == getItem(ls, countersKey) = NULL
        ls1 == IF needS THEN setItem(ls, sessionsKey, <<>>) ELSE ls
        ls2 == IF needM THEN setItem(ls1, messagesKey, <<>>) ELSE ls1
        ls3 == IF needC THEN setItem(ls2, countersKey, InitialCounters) ELSE ls2
    IN  IF needS /\ 1 \in raises THEN [ls |-> ls, threw |-> TRUE, raised |-> 1]
        ELSE IF needM /\ 2 \in raises THEN [ls |-> ls1, threw |-> TRUE, raised |-> 2]
        ELSE IF needC /\ 3 \in raises THEN [ls |-> ls2, threw |-> TRUE, raised |-> 3]
        ELSE [ls |-> ls3, threw |-> FALSE, raised |-> 0]

\* The same method with the exception of setItem swallowed.
getNextIdSwallowing(ls, type, raise) ==
    LET counters == OrElse(getItem(ls, countersKey), EmptyCounters)
        nextId == IF counters[type] # 0 THEN counters[type] ELSE 1
    IN  IF raise THEN [ls |-> ls, threw |-> FALSE, id |-> nextId]
        ELSE [ls |-> setItem(ls, countersKey, [counters EXCEPT ![type] = nextId + 1]),
              threw |-> FALSE, id |-> nextId]

\* The same method handing out the incremented value.
getNextIdPreIncrement(ls, type, raise) ==
    LET counters == OrElse(getItem(ls, countersKey), EmptyCounters)
        nextId == IF counters[type] # 0 THEN counters[type] ELSE 1
    IN  IF raise THEN [ls |-> ls, threw |-> TRUE, id |-> 0]
        ELSE [ls |-> setItem(ls, countersKey, [counters EXCEPT ![type] = nextId + 1]),
              threw |-> FALSE, id |-> nextId + 1]

\* The same method with the counter not persisted after the increment.
getNextIdNotPersisted(ls, type, raise) ==
    LET counters == OrElse(getItem(ls, countersKey), EmptyCounters)
        nextId == IF counters[type] # 0 THEN counters[type] ELSE 1
    IN  IF raise THEN [ls |-> ls, threw |-> TRUE, id |-> 0]
        ELSE [ls |-> ls, threw |-> FALSE, id |-> nextId]

\* getNextId: reads the counters, hands out counters[type] || 1 and writes the
\* counters back with that field incremented.  raise: its setItem raises.
getNextId(ls, type, raise) ==
    LET counters == OrElse(getItem(ls, countersKey), EmptyCounters)
        nextId == IF counters[type] # 0 THEN counters[type] ELSE 1
    IN  IF raise THEN [ls |-> ls, threw |-> TRUE, id |-> 0]
        ELSE [ls |-> setItem(ls, countersKey, [counters EXCEPT ![type] = nextId + 1]),
              threw |-> FALSE, id |-> nextId]

\* The same method writing the list back without the new session.
storeSessionNotAppended(ls, title, raises) ==
    LET sessions == OrElse(getItem(ls, sessionsKey), <<>>)
        g == getNextId(ls, "sessionId", 1 \in raises)
        session == [id |-> g.id, title |-> title]
    IN  IF g.threw
        THEN [ls |-> ls, threw |-> TRUE, raised |-> 1, session |-> NULL, ids |-> <<>>]
        ELSE IF 2 \in raises
        THEN [ls |-> g.ls, threw |-> TRUE, raised |-> 2, session |-> NULL, ids |-> <<g.id>>]
        ELSE [ls |-> setItem(g.ls, sessionsKey, sessions),
              threw |-> FALSE, raised |-> 0, session |-> Item(session), ids |-> <<g.id>>]

\* The same method putting the new session at the head of the list.
storeSessionAtHead(ls, title, raises) ==
    LET sessions == OrElse(getItem(ls, sessionsKey), <<>>)
        g == getNextId(ls, "sessionId", 1 \in raises)
        session == [id |-> g.id, title |-> title]
    IN  IF g.threw
        THEN [ls |-> ls, threw |-> TRUE, raised |-> 1, session |-> NULL, ids |-> <<>>]
        ELSE IF 2 \in raises
        THEN [ls |-> g.ls, threw |-> TRUE, raised |-> 2, session |-> NULL, ids |-> <<g.id>>]
        ELSE [ls |-> setItem(g.ls, sessionsKey, <<session>> \o sessions),
              threw |-> FALSE, raised |-> 0, session |-> Item(session), ids |-> <<g.id>>]

\* storeSession: appends {id: getNextId("sessionId"), title} to the session list.
\* Its setItem calls are numbered 1 (counters) and 2 (session list).
storeSession(ls, title, raises) ==
    LET sessions == OrElse(getItem(ls, sessionsKey), <<>>)
        g == getNextId(ls, "sessionId", 1 \in raises)
        session == [id |-> g.id, title |-> title]
    IN  IF g.threw
        THEN [ls |-> ls, threw |-> TRUE, raised |-> 1, session |-> NULL, ids |-> <<>>]
        ELSE IF 2 \in raises
        THEN [ls |-> g.ls, threw |-> TRUE, raised |-> 2, session |-> NULL, ids |-> <<g.id>>]
        ELSE [ls |-> setItem(g.ls, sessionsKey, Append(sessions, session)),
              threw |-> FALSE, raised |-> 0, session |-> Item(session), ids |-> <<g.id>>]

\* The title storeChat gives an auto-created session:
\*   lastMessage?.content?.replace(/^(.{1,100})(\s.*|$)/, (_, a) => a) ?? "New Chat"
\* content is NULL when request.messages is absent or empty or the last message
\* has no content.  The pattern matches greedily the longest n <= 100 leading
\* characters (none a line terminator) that are followed by a whitespace
\* character or by the end of the string; with a whitespace the match goes on to
\* the next line terminator.  The matched text is replaced by its first n
\* characters; text after the match, and a string the pattern does not match,
\* are kept as they are.
NewChat == <<"N", "e", "w", " ", "C", "h", "a", "t">>

deriveTitle(content) ==
    IF content = NULL THEN NewChat
    ELSE
    LET s == content[1]
        len == Len(s)
        lead == IF \E i \in 1..len : IsLineTerminator(s[i])
                THEN (CHOOSE i \in 1..len : /\ IsLineTerminator(s[i])
                                            /\ \A j \in 1..(i - 1) : ~IsLineTerminator(s[j])) - 1
                ELSE len
        fits == {n \in 1..Min(TitleLimit, lead) : n = len \/ IsSpace(s[n + 1])}
    IN  IF fits = {} THEN s
        ELSE
        LET n == SetMax(fits)
            rest == {i \in (n + 2)..len : IsLineTerminator(s[i])}
            matchEnd == IF n = len THEN len
                        ELSE IF rest = {} THEN len
                        ELSE (CHOOSE i \in rest : \A j \in rest : i <= j) - 1
        IN  SubSeq(s, 1, n) \o SubSeq(s, matchEnd + 1, len)

\* request.messages?.[request.messages.length - 1]?.content
lastContent(request) ==
    IF request.messages = NULL THEN NULL
    ELSE IF request.messages[1] = <<>> THEN NULL
    ELSE request.messages[1][Len(request.messages[1])].content

\* A storeChat that stores a new session whether or not currentMessage carries
\* a sessionId.
storeChatAlwaysNewSession(ls, currentMessage, request, response, t, raises) ==
    LET s == storeSession(ls, deriveTitle(lastContent(request)), raises)
        sessionId == IF ~s.threw THEN s.session[1].id ELSE currentMessage.sessionId
        messages == OrElse(getItem(s.ls, messagesKey), <<>>)
        g == getNextId(s.ls, "messageId", 3 \in raises)
        message == [id |-> g.id, sessionId |-> sessionId,
                    previousMessageId |-> IF currentMessage.id # 0
                                          THEN Item(currentMessage.id) ELSE NULL,
                    request |-> request, response |-> response,
                    cumulativeInputLength |-> 0, updatedAt |-> t]
        failed(l, n, sids, mids) ==
            [ls |-> l, threw |-> TRUE, raised |-> n, message |-> NULL,
             session |-> s.session, sessionIds |-> sids, messageIds |-> mids]
    IN  IF s.threw THEN failed(s.ls, s.raised, s.ids, <<>>)
        ELSE IF g.threw THEN failed(s.ls, 3, s.ids, <<>>)
        ELSE IF 4 \in raises THEN failed(g.ls, 4, s.ids, <<g.id>>)
        ELSE [ls |-> setItem(g.ls, messagesKey, Append(messages, message)),
              threw |-> FALSE, raised |-> 0, message |-> Item(message),
              session |-> s.session, sessionIds |-> s.ids, messageIds |-> <<g.id>>]

\* storeChat(currentMessage, request, response) at time t.  Its setItem calls, in
\* the order the method makes them: without a session id 1 counters, 2 session
\* list, 3 counters, 4 message list; with one 1 counters, 2 message list.  Any
\* exception ends the method, which rethrows it wrapped.
storeChat(ls, currentMessage, request, response, t, raises) ==
    LET auto == currentMessage.sessionId = 0
        s == IF auto THEN storeSession(ls, deriveTitle(lastContent(request)), raises)
             ELSE [ls |-> ls, threw |-> FALSE, raised |-> 0, session |-> NULL, ids |-> <<>>]
        base == IF auto THEN 2 ELSE 0
        sessionId == IF auto /\ ~s.threw THEN s.session[1].id ELSE currentMessage.sessionId
        messages == OrElse(getItem(s.ls, messagesKey), <<>>)
        g == getNextId(s.ls, "messageId", (base + 1) \in raises)
        message == [id |-> g.id, sessionId |-> sessionId,
                    previousMessageId |-> IF currentMessage.id # 0
                                          THEN Item(currentMessage.id) ELSE NULL,
                    request |-> request, response |-> response,
                    cumulativeInputLength |-> 0, updatedAt |-> t]
        failed(l, n, sids, mids) ==
            [ls |-> l, threw |-> TRUE, raised |-> n, message |-> NULL,
             session |-> s.session, sessionIds |-> sids, messageIds |-> mids]
    IN  IF s.threw THEN failed(s.ls, s.raised, s.ids, <<>>)
        ELSE IF g.threw THEN failed(s.ls, base + 1, s.ids, <<>>)
        ELSE IF (base + 2) \in raises THEN failed(g.ls, base + 2, s.ids, <<g.id>>)
        ELSE [ls |-> setItem(g.ls, messagesKey, Append(messages, message)),
              threw |-> FALSE, raised |-> 0, message |-> Item(message),
              session |-> s.session, sessionIds |-> s.ids, messageIds |-> <<g.id>>]

\* The same method with the counters key left in place.
clearAllDataKeepingCounters(ls, raises) ==
    initializeStorage(removeItem(removeItem(ls, sessionsKey), messagesKey), raises)

\* clearAllData: removes the three keys and runs initializeStorage again.
clearAllData(ls, raises) ==
    initializeStorage(
        removeItem(removeItem(removeItem(ls, sessionsKey), messagesKey), countersKey),
        raises)

\* Number(s) of the loose comparison msg.id == id with a string id: the value of
\* a string of decimal digits, 0 for the empty string, NaN (here -1, which is
\* the id of no message) for any other string.
RECURSIVE DigitsValue(_)
DigitsValue(s) ==
    IF s = <<>> THEN 0
    ELSE LET d == s[Len(s)]
             rest == DigitsValue(SubSeq(s, 1, Len(s) - 1))
         IN  IF rest = -1 \/ ~(\E k \in 1..10 : DigitChar[k] = d) THEN -1
             ELSE 10 * rest + (CHOOSE k \in 1..10 : DigitChar[k] = d) - 1

LooseEquals(n, id) ==
    IF id.type = "number" THEN n = id.n ELSE n = DigitsValue(Trim(id.s))

NotFoundText == <<"n", "o", "t", " ", "f", "o", "u", "n", "d">>

\* The three errors retrieveMessageById ends with.
NotFoundError == [name |-> "Error", message |-> "Message with id ... not found"]
WrappedError == [name |-> "Error", message |-> "Failed to retrieve message: ..."]
ParseError == [name |-> "SyntaxError", message |-> "... is not valid JSON"]

\* retrieveMessageById(id).  The catch block rethrows an error whose message
\* includes "not found" and wraps any other.  The message of JSON.parse's
\* SyntaxError is the engine's: quotesSource says whether it quotes the text it
\* rejected (V8: Unexpected token 'o', "not found" is not valid JSON).
retrieveMessageById(ls, id, quotesSource) ==
    LET item == getItem(ls, messagesKey)
        messages == OrElse(item, <<>>)
        found == {i \in 1..Len(messages) : LooseEquals(messages[i].id, id)}
        first == CHOOSE i \in found : \A j \in found : i <= j
    IN  IF IsUnparsable(item)
        THEN [ls |-> ls, status |-> "error", raised |-> {},
              value |-> IF quotesSource /\ Includes(item[1], NotFoundText)
                        THEN Item(ParseError) ELSE Item(WrappedError)]
        ELSE IF found = {}
        THEN [ls |-> ls, status |-> "error", value |-> Item(NotFoundError), raised |-> {}]
        ELSE [ls |-> ls, status |-> "ok", value |-> Item(messages[first]), raised |-> {}]

\* retrieveMessagesBySession(sessionId): the stored messages whose sessionId
\* loosely equals the argument, in stored order; a parse error is wrapped.
retrieveMessagesBySession(ls, sessionId) ==
    LET item == getItem(ls, messagesKey)
        messages == OrElse(item, <<>>)
        ofSession(msg) == LooseEquals(msg.sessionId, sessionId)
    IN  IF IsUnparsable(item)
        THEN [ls |-> ls, status |-> "error", value |-> Item(WrappedError), raised |-> {}]
        ELSE [ls |-> ls, status |-> "ok", value |-> SelectSeq(messages, ofSession),
              raised |-> {}]

\* retrieveAllSessions(): the stored session list; a parse error is wrapped.
retrieveAllSessions(ls) ==
    LET item == getItem(ls, sessionsKey)
    IN  IF IsUnparsable(item)
        THEN [ls |-> ls, status |-> "error", value |-> Item(WrappedError), raised |-> {}]
        ELSE [ls |-> ls, status |-> "ok", value |-> OrElse(item, <<>>), raised |-> {}]

-----------------------------------------------------------------------------
(* Chat History Service: BrowserChatHistoryService *)

PreviewLimit == 50

sessionsListKey == Key("tokenRingChat_sessions_v1", NoId)

NewChatSessionText ==
    <<"N", "e", "w", " ", "c", "h", "a", "t", " ", "s", "e", "s", "s", "i", "o", "n", ".">>
HistoryClearedText ==
    <<"C", "h", "a", "t", " ", "h", "i", "s", "t", "o", "r", "y", " ",
      "c", "l", "e", "a", "r", "e", "d", ".">>
Ellipsis == <<".", ".", ".">>

\* `Chat @ ${new Date(now).toLocaleTimeString(...)}`: the time is written with
\* the digits of the clock value.
defaultSessionName(t) == <<"C", "h", "a", "t", " ", "@", " ">> \o toString(t)

\* seq.findIndex(x => x.id === id): the first index whose element has the id,
\* 0 for -1.
FindIndex(seq, id) ==
    IF \E i \in 1..Len(seq) : seq[i].id = id
    THEN CHOOSE i \in 1..Len(seq) : seq[i].id = id /\ \A j \in 1..(i - 1) : seq[j].id # id
    ELSE 0

\* seq.filter(x => x.id !== id)
Filter(seq, id) ==
    LET keep(x) == x.id # id
    IN  SelectSeq(seq, keep)

\* _getSessionKey: `${prefix}history_${sessionId}`
_getSessionKey(sessionId) == Key("tokenRingChat_history_", sessionId)

_getSessionsList(ls) == ParsedOrEmpty(getItem(ls, sessionsListKey))

\* _saveSessionsList and _saveMessages catch the exception of setItem, log it
\* and return normally.
_saveSessionsList(ls, sessions, raise) ==
    IF raise THEN ls ELSE setItem(ls, sessionsListKey, sessions)

\* _getMessages: the log of the session, [] when the key is absent, when its text
\* does not parse or when the session id is missing (the exceptions of
\* JSON.parse and of _getSessionKey are caught).
_getMessages(ls, sessionId) ==
    IF sessionId = NULL THEN <<>>
    ELSE ParsedOrEmpty(getItem(ls, _getSessionKey(sessionId)))

_saveMessages(ls, sessionId, messages, raise) ==
    IF sessionId = NULL \/ raise THEN ls
    ELSE setItem(ls, _getSessionKey(sessionId), messages)

\* listSessions(): the stored sessions sorted by lastActivity, newest first
\* (sessions.sort((a, b) => b.lastActivity - a.lastActivity), a stable sort).
listSessions(ls) ==
    LET sessions == _getSessionsList(ls)
    IN  [ls |-> ls, status |-> "ok",
         value |-> StableSortDesc(sessions,
                                  [i \in 1..Len(sessions) |-> sessions[i].lastActivity]),
         raised |-> {}]

\* createSession(name) at time t.  setItem calls: 1 session list, 2 message log.
createSession(ls, name, t, raises) ==
    LET sessions == _getSessionsList(ls)
        sessionId == toString(t)
        sessionName == IF name # NULL /\ Trim(name) # <<>>
                       THEN Trim(name) ELSE defaultSessionName(t)
        newSession == [id |-> sessionId, title |-> sessionName, name |-> sessionName,
                       lastActivity |-> t, createdAt |-> t,
                       previewText |-> NewChatSessionText]
        ls1 == _saveSessionsList(ls, <<newSession>> \o sessions, 1 \in raises)
        ls2 == _saveMessages(ls1, sessionId, <<>>, 2 \in raises)
    IN  [ls |-> ls2, status |-> "ok", value |-> Item(newSession),
         raised |-> raises \cap {1, 2}]

\* A deleteSession that removes the message log before it looks for the session.
deleteSessionRemovingLogFirst(ls, sessionId, raises) ==
    LET sessions == _getSessionsList(ls)
        kept == Filter(sessions, sessionId)
    IN  IF sessionId = NULL
        THEN [ls |-> ls, status |-> "ok", value |-> FALSE, raised |-> {}]
        ELSE IF Len(kept) < Len(sessions)
        THEN [ls |-> removeItem(_saveSessionsList(ls, kept, 1 \in raises),
                                _getSessionKey(sessionId)),
              status |-> "ok", value |-> TRUE, raised |-> raises \cap {1}]
        ELSE [ls |-> removeItem(ls, _getSessionKey(sessionId)),
              status |-> "ok", value |-> FALSE, raised |-> {}]

\* deleteSession(sessionId).  setItem call: 1 session list.
deleteSession(ls, sessionId, raises) ==
    LET sessions == _getSessionsList(ls)
        kept == Filter(sessions, sessionId)
    IN  IF sessionId = NULL
        THEN [ls |-> ls, status |-> "ok", value |-> FALSE, raised |-> {}]
        ELSE IF Len(kept) < Len(sessions)
        THEN [ls |-> removeItem(_saveSessionsList(ls, kept, 1 \in raises),
                                _getSessionKey(sessionId)),
              status |-> "ok", value |-> TRUE, raised |-> raises \cap {1}]
        ELSE [ls |-> ls, status |-> "ok", value |-> FALSE, raised |-> {}]

\* A renameSession that tests newName without trimming it.
renameSessionUntrimmedTest(ls, sessionId, newName, t, raises) ==
    LET sessions == _getSessionsList(ls)
        i == FindIndex(sessions, sessionId)
        renamed == [sessions[i] EXCEPT !.name = Trim(newName),
                                       !.title = Trim(newName),
                                       !.lastActivity = t]
    IN  IF sessionId = NULL \/ newName = NULL \/ newName = <<>> \/ i = 0
        THEN [ls |-> ls, status |-> "ok", value |-> NULL, raised |-> {}]
        ELSE [ls |-> _saveSessionsList(ls, [sessions EXCEPT ![i] = renamed], 1 \in raises),
              status |-> "ok", value |-> Item(renamed), raised |-> raises \cap {1}]

\* renameSession(sessionId, newName) at time t.  setItem call: 1 session list.
renameSession(ls, sessionId, newName, t, raises) ==
    LET sessions == _getSessionsList(ls)
        i == FindIndex(sessions, sessionId)
        renamed == [sessions[i] EXCEPT !.name = Trim(newName),
                                       !.title = Trim(newName),
                                       !.lastActivity = t]
    IN  IF sessionId = NULL \/ newName = NULL \/ Trim(newName) = <<>> \/ i = 0
        THEN [ls |-> ls, status |-> "ok", value |-> NULL, raised |-> {}]
        ELSE [ls |-> _saveSessionsList(ls, [sessions EXCEPT ![i] = renamed], 1 \in raises),
              status |-> "ok", value |-> Item(renamed), raised |-> raises \cap {1}]

\* The preview _updateSessionMetadata derives:
\* String(lastMessageText || "").substring(0, 50), with "..." appended when
\* that substring has length 50.
previewText(lastMessageText) ==
    LET preview == Substring(OrElse(lastMessageText, <<>>), 0, PreviewLimit)
    IN  IF Len(preview) = PreviewLimit THEN preview \o Ellipsis ELSE preview

\* _updateSessionMetadata(sessionId, lastMessageText) at time t; raise: its
\* setItem raises (caught in _saveSessionsList).  wrote: it reached the setItem.
_updateSessionMetadata(ls, sessionId, lastMessageText, t, raise) ==
    LET sessions == _getSessionsList(ls)
        i == FindIndex(sessions, sessionId)
        updated == [sessions[i] EXCEPT !.lastActivity = t,
                                       !.previewText = previewText(lastMessageText)]
    IN  IF i = 0 THEN [ls |-> ls, wrote |-> FALSE]
        ELSE [ls |-> _saveSessionsList(ls, [sessions EXCEPT ![i] = updated], raise),
              wrote |-> TRUE]

\* a || b on two optional strings: the empty string is falsy.
OrText(a, b) == IF a # NULL /\ a[1] # <<>> THEN a ELSE b

\* addMessage(sessionId, message) at time t.  message is NULL when the argument
\* is no object.  The stored record is {id, timestamp, createdAt, sessionId}
\* filled with defaults and then overwritten by the fields message itself has
\* ({..., ...message}).  setItem calls: 1 message log, 2 session list.
addMessage(ls, sessionId, message, t, raises) ==
    IF sessionId = NULL
    THEN [ls |-> ls, status |-> "error", value |-> NULL, raised |-> {}]
    ELSE IF message = NULL
    THEN [ls |-> ls, status |-> "error", value |-> NULL, raised |-> {}]
    ELSE
    LET m == message[1]
        messages == _getMessages(ls, sessionId)
        messageToStore ==
            [id |-> IF m.id # NULL THEN m.id[1] ELSE toString(t),
             timestamp |-> IF m.timestamp # 0 THEN m.timestamp ELSE t,
             createdAt |-> IF m.createdAt # 0 THEN m.createdAt ELSE t,
             sessionId |-> IF m.sessionId # NULL THEN m.sessionId[1] ELSE sessionId,
             content |-> m.content,
             text |-> m.text]
        ls1 == _saveMessages(ls, sessionId, Append(messages, messageToStore), 1 \in raises)
        u == _updateSessionMetadata(ls1, sessionId, OrText(m.content, m.text), t, 2 \in raises)
    IN  [ls |-> u.ls, status |-> "ok", value |-> Item(messageToStore),
         raised |-> raises \cap (IF u.wrote THEN {1, 2} ELSE {1})]

\* clearSessionHistory(sessionId) at time t.  setItem calls: 1 message log,
\* 2 session list.
clearSessionHistory(ls, sessionId, t, raises) ==
    IF sessionId = NULL
    THEN [ls |-> ls, status |-> "error", value |-> NULL, raised |-> {}]
    ELSE
    LET ls1 == _saveMessages(ls, sessionId, <<>>, 1 \in raises)
        u == _updateSessionMetadata(ls1, sessionId, Item(HistoryClearedText), t, 2 \in raises)
    IN  [ls |-> u.ls, status |-> "ok", value |-> NULL,
         raised |-> raises \cap (IF u.wrote THEN {1, 2} ELSE {1})]

\* The sort key of the reads: m.timestamp || m.createdAt || 0
messageTime(m) == IF m.timestamp # 0 THEN m.timestamp ELSE m.createdAt

sortByTimeDesc(messages) ==
    StableSortDesc(messages, [i \in 1..Len(messages) |-> messageTime(messages[i])])

DefaultLimit == 10
ThreadTreeLimit == 50

\* A getRecentMessages that returns the slice as sorted.
getRecentMessagesNewestFirst(ls, sessionId, limit) ==
    IF sessionId = NULL
    THEN [ls |-> ls, status |-> "ok", value |-> <<>>, raised |-> {}]
    ELSE [ls |-> ls, status |-> "ok",
          value |-> SliceFromStart(sortByTimeDesc(_getMessages(ls, sessionId)),
                                   OrElse(limit, DefaultLimit)),
          raised |-> {}]

\* getRecentMessages(sessionId, limit = 10); limit is NULL when the argument is
\* omitted.  Sorts newest first, takes the first limit messages, reverses them.
getRecentMessages(ls, sessionId, limit) ==
    IF sessionId = NULL
    THEN [ls |-> ls, status |-> "ok", value |-> <<>>, raised |-> {}]
    ELSE LET messages == _getMessages(ls, sessionId)
             sortedMessages == sortByTimeDesc(messages)
             recent == SliceFromStart(sortedMessages, OrElse(limit, DefaultLimit))
         IN  [ls |-> ls, status |-> "ok", value |-> Reverse(recent), raised |-> {}]

\* getThreadTree(sessionId): the 50 most recent messages.
getThreadTree(ls, sessionId) ==
    IF sessionId = NULL
    THEN [ls |-> ls, status |-> "error", value |-> NULL, raised |-> {}]
    ELSE getRecentMessages(ls, sessionId, Item(ThreadTreeLimit))

\* m.text || m.content || ''
textToSearch(m) ==
    IF m.text # NULL /\ m.text[1] # <<>> THEN m.text[1]
    ELSE IF m.content # NULL /\ m.content[1] # <<>> THEN m.content[1]
    ELSE <<>>

\* A searchMessages that tests the keyword for null only: the empty string is
\* searched for like any other.
searchMessagesEmptyKeywordSearched(ls, keyword, sessionId) ==
    IF sessionId = NULL
    THEN [ls |-> ls, status |-> "error", value |-> NULL, raised |-> {}]
    ELSE IF keyword = NULL
    THEN [ls |-> ls, status |-> "ok", value |-> <<>>, raised |-> {}]
    ELSE LET messages == _getMessages(ls, sessionId)
             lowerKeyword == toLowerCase(keyword[1])
             matches(m) == Includes(toLowerCase(textToSearch(m)), lowerKeyword)
             results == SelectSeq(messages, matches)
         IN  [ls |-> ls, status |-> "ok", value |-> sortByTimeDesc(results),
              raised |-> {}]

\* searchMessages(keyword, sessionId); keyword is NULL when missing.
searchMessages(ls, keyword, sessionId) ==
    IF sessionId = NULL
    THEN [ls |-> ls, status |-> "error", value |-> NULL, raised |-> {}]
    ELSE IF keyword = NULL \/ keyword[1] = <<>>
    THEN [ls |-> ls, status |-> "ok", value |-> <<>>, raised |-> {}]
    ELSE LET messages == _getMessages(ls, sessionId)
             lowerKeyword == toLowerCase(keyword[1])
             matches(m) == Includes(toLowerCase(textToSearch(m)), lowerKeyword)
             results == SelectSeq(messages, matches)
         IN  [ls |-> ls, status |-> "ok", value |-> sortByTimeDesc(results),
              raised |-> {}]

-----------------------------------------------------------------------------
(* Checkpoint Service: BrowserCheckpointService *)

sortByTimestampDesc(checkpoints) ==
    StableSortDesc(checkpoints, [i \in 1..Len(checkpoints) |-> checkpoints[i].timestamp])

\* _getStorageKey: `${prefix}${sessionId}`
_getStorageKey(sessionId) == Key("tokenRingCheckpoints_v1_", sessionId)

_getCheckpoints(ls, sessionId) ==
    IF sessionId = NULL THEN <<>>
    ELSE ParsedOrEmpty(getItem(ls, _getStorageKey(sessionId)))

\* _saveCheckpoints catches the exception of setItem, logs it and returns.
_saveCheckpoints(ls, sessionId, checkpoints, raise) ==
    IF sessionId = NULL \/ raise THEN ls
    ELSE setItem(ls, _getStorageKey(sessionId), checkpoints)

\* A field value of a message: a string, or the number NaN, or null.
StringValue(s) == [type |-> "string", v |-> s]
NaNValue == [type |-> "NaN", v |-> <<>>]
NullValue == [type |-> "null", v |-> <<>>]

\* JSON.parse(JSON.stringify(value)) of a field value: NaN is written as null.
jsonValue(value) == IF value.type = "NaN" THEN NullValue ELSE value

\* The same copy with the content left out.
jsonCloneNoContent(message) ==
    [id |-> message.id, content |-> NullValue]

\* JSON.parse(JSON.stringify(currentMessage)): a new object, every field copied.
jsonClone(message) ==
    [id |-> message.id, content |-> jsonValue(message.content)]

\* `Checkpoint @ ${new Date(now).toISOString()}`
defaultLabel(t) ==
    <<"C", "h", "e", "c", "k", "p", "o", "i", "n", "t", " ", "@", " ">> \o toString(t)

\* The same method with the new checkpoint put at the head of the list.
createCheckpointAtHead(ls, label, currentMessage, sessionId, t, raises) ==
    IF sessionId = NULL \/ currentMessage = NULL
    THEN [ls |-> ls, status |-> "error", value |-> NULL, raised |-> {}]
    ELSE
    LET checkpoints == _getCheckpoints(ls, sessionId)
        newCheckpoint ==
            [id |-> toString(t),
             label |-> IF label # <<>> THEN label ELSE defaultLabel(t),
             messageId |-> currentMessage[1].id,
             currentMessage |-> jsonClone(currentMessage[1]),
             timestamp |-> t, createdAt |-> t]
    IN  [ls |-> _saveCheckpoints(ls, sessionId, <<newCheckpoint>> \o checkpoints,
                                 1 \in raises),
         status |-> "ok", value |-> Item(newCheckpoint), raised |-> raises \cap {1}]

\* createCheckpoint(label, currentMessage, sessionId) at time t; currentMessage
\* is NULL when missing.  setItem call: 1 the session's checkpoint list.
createCheckpoint(ls, label, currentMessage, sessionId, t, raises) ==
    IF sessionId = NULL \/ currentMessage = NULL
    THEN [ls |-> ls, status |-> "error", value |-> NULL, raised |-> {}]
    ELSE
    LET checkpoints == _getCheckpoints(ls, sessionId)
        newCheckpoint ==
            [id |-> toString(t),
             label |-> IF label # <<>> THEN label ELSE defaultLabel(t),
             messageId |-> currentMessage[1].id,
             currentMessage |-> jsonClone(currentMessage[1]),
             timestamp |-> t, createdAt |-> t]
    IN  [ls |-> _saveCheckpoints(ls, sessionId, Append(checkpoints, newCheckpoint),
                                 1 \in raises),
         status |-> "ok", value |-> Item(newCheckpoint), raised |-> raises \cap {1}]

\* retrieveCheckpoint(idOrIdx, sessionId).  idOrIdx is a number (an index into
\* the list sorted by timestamp, newest first) or a string (an id).
NumberArg(n) == [type |-> "number", n |-> n, s |-> <<>>]
StringArg(s) == [type |-> "string", n |-> 0, s |-> s]

\* A retrieveCheckpoint that indexes the list in its stored order.
retrieveCheckpointUnsorted(ls, idOrIdx, sessionId) ==
    IF sessionId = NULL
    THEN [ls |-> ls, status |-> "error", value |-> NULL, raised |-> {}]
    ELSE
    LET checkpoints == _getCheckpoints(ls, sessionId)
        i == FindIndex(checkpoints, idOrIdx.s)
        checkpoint ==
            IF idOrIdx.type = "number"
            THEN IF idOrIdx.n + 1 \in 1..Len(checkpoints)
                 THEN Item(checkpoints[idOrIdx.n + 1]) ELSE NULL
            ELSE IF i # 0 THEN Item(checkpoints[i]) ELSE NULL
    IN  [ls |-> ls, status |-> "ok", value |-> checkpoint, raised |-> {}]

retrieveCheckpoint(ls, idOrIdx, sessionId) ==
    IF sessionId = NULL
    THEN [ls |-> ls, status |-> "error", value |-> NULL, raised |-> {}]
    ELSE
    LET checkpoints == _getCheckpoints(ls, sessionId)
        sortedCheckpoints == sortByTimestampDesc(checkpoints)
        i == FindIndex(checkpoints, idOrIdx.s)
        checkpoint ==
            IF idOrIdx.type = "number"
            THEN IF idOrIdx.n + 1 \in 1..Len(sortedCheckpoints)
                 THEN Item(sortedCheckpoints[idOrIdx.n + 1]) ELSE NULL
            ELSE IF i # 0 THEN Item(checkpoints[i]) ELSE NULL
    IN  [ls |-> ls, status |-> "ok", value |-> checkpoint, raised |-> {}]

\* A listCheckpoint that lets the SyntaxError of JSON.parse reach the caller.
listCheckpointUncaught(ls, sessionId) ==
    IF sessionId = NULL \/ IsUnparsable(getItem(ls, _getStorageKey(sessionId)))
    THEN [ls |-> ls, status |-> "error", value |-> NULL, raised |-> {}]
    ELSE [ls |-> ls, status |-> "ok",
          value |-> sortByTimestampDesc(_getCheckpoints(ls, sessionId)),
          raised |-> {}]

\* listCheckpoint(sessionId): the session's checkpoints, newest first.
\* A listCheckpoint that would keep the order it sorted: it saves the sorted list.
listCheckpointSavingSorted(ls, sessionId) ==
    IF sessionId = NULL
    THEN [ls |-> ls, status |-> "error", value |-> NULL, raised |-> {}]
    ELSE [ls |-> _saveCheckpoints(ls, sessionId,
                                  sortByTimestampDesc(_getCheckpoints(ls, sessionId)),
                                  FALSE),
          status |-> "ok",
          value |-> sortByTimestampDesc(_getCheckpoints(ls, sessionId)),
          raised |-> {}]

listCheckpoint(ls, sessionId) ==
    IF sessionId = NULL
    THEN [ls |-> ls, status |-> "error", value |-> NULL, raised |-> {}]
    ELSE [ls |-> ls, status |-> "ok",
          value |-> sortByTimestampDesc(_getCheckpoints(ls, sessionId)),
          raised |-> {}]

\* A clearAllCheckpoints without the test of the session id: a call without one
\* completes normally.
clearAllCheckpointsUnchecked(ls, sessionId, raises) ==
    [ls |-> IF sessionId = NULL THEN ls
            ELSE _saveCheckpoints(ls, sessionId, <<>>, 1 \in raises),
     status |-> "ok", value |-> NULL, raised |-> raises \cap {1}]

\* clearAllCheckpoints(sessionId).  setItem call: 1 the session's list.
clearAllCheckpoints(ls, sessionId, raises) ==
    IF sessionId = NULL
    THEN [ls |-> ls, status |-> "error", value |-> NULL, raised |-> {}]
    ELSE [ls |-> _saveCheckpoints(ls, sessionId, <<>>, 1 \in raises),
          status |-> "ok", value |-> NULL, raised |-> raises \cap {1}]

-----------------------------------------------------------------------------
(* Agent State Storage: BrowserAgentStateStorage *)

agentCheckpointsKey == Key("tokenRingAgentState_v1_checkpoints", NoId)

_getAllCheckpoints(ls) == ParsedOrEmpty(getItem(ls, agentCheckpointsKey))

\* _saveAllCheckpoints catches the exception of setItem, logs it and returns.
_saveAllCheckpoints(ls, checkpoints, raise) ==
    IF raise THEN ls ELSE setItem(ls, agentCheckpointsKey, checkpoints)

\* storeCheckpoint(checkpoint) at time t; the id is `${agentId}_${now}`.
\* setItem call: 1 the checkpoint list.
storeCheckpoint(ls, checkpoint, t, raises) ==
    LET checkpoints == _getAllCheckpoints(ls)
        id == checkpoint.agentId \o <<"_">> \o toString(t)
        storedCheckpoint ==
            [id |-> id, agentId |-> checkpoint.agentId, name |-> checkpoint.name,
             state |-> checkpoint.state,
             createdAt |-> IF checkpoint.createdAt # 0 THEN checkpoint.createdAt ELSE t]
    IN  [ls |-> _saveAllCheckpoints(ls, Append(checkpoints, storedCheckpoint), 1 \in raises),
         status |-> "ok", value |-> id, raised |-> raises \cap {1}]

\* retrieveCheckpoint(checkpointId) of the Agent State Storage: the first stored
\* checkpoint with the id, or null.  A missing id is the id of no checkpoint.
agentRetrieveCheckpoint(ls, checkpointId) ==
    LET checkpoints == _getAllCheckpoints(ls)
        i == FindIndex(checkpoints, checkpointId)
    IN  [ls |-> ls, status |-> "ok",
         value |-> IF i # 0 THEN Item(checkpoints[i]) ELSE NULL, raised |-> {}]

\* listCheckpoints(): {id, name, agentId, createdAt} of every checkpoint, sorted
\* by createdAt, newest first.
agentListCheckpoints(ls) ==
    LET checkpoints == _getAllCheckpoints(ls)
        listItems == [i \in 1..Len(checkpoints) |->
                        [id |-> checkpoints[i].id, name |-> checkpoints[i].name,
                         agentId |-> checkpoints[i].agentId,
                         createdAt |-> checkpoints[i].createdAt]]
    IN  [ls |-> ls, status |-> "ok",
         value |-> StableSortDesc(listItems,
                                  [i \in 1..Len(listItems) |-> listItems[i].createdAt]),
         raised |-> {}]

\* deleteCheckpoint(checkpointId).  setItem call: 1 the checkpoint list.
deleteCheckpoint(ls, checkpointId, raises) ==
    LET checkpoints == _getAllCheckpoints(ls)
        filtered == Filter(checkpoints, checkpointId)
    IN  IF Len(filtered) < Len(checkpoints)
        THEN [ls |-> _saveAllCheckpoints(ls, filtered, 1 \in raises),
              status |-> "ok", value |-> TRUE, raised |-> raises \cap {1}]
        ELSE [ls |-> ls, status |-> "ok", value |-> FALSE, raised |-> {}]

\* clearAllCheckpoints() of the Agent State Storage.  setItem call: 1 the list.
agentClearAllCheckpoints(ls, raises) ==
    [ls |-> _saveAllCheckpoints(ls, <<>>, 1 \in raises),
     status |-> "ok", value |-> NULL, raised |-> raises \cap {1}]

-----------------------------------------------------------------------------
(* Inputs of the calls *)

Str_Hi == <<"H", "i">>
Str_a_b == <<"a", " ", "b">>

\* The sets of setItem calls of one call that raise.  A method that rethrows
\* ends at the first one that raises; a method that swallows goes on.
RaiseOne(n) == {{}} \cup {{i} : i \in 1..n}
RaiseAny(n) == SUBSET (1..n)

\* Message Store.  currentMessage: sessionId and id, 0 when the field (or the
\* object) is absent.  Session 1 may or may not exist when a call names it.
CurrentMessages ==
    { [sessionId |-> 0, id |-> 0],
      [sessionId |-> 1, id |-> 1] }

\* request.messages is NULL (absent) or Item(list of messages with a content).
Requests ==
    { [messages |-> Item(<<[content |-> Item(Str_a_b)]>>)] }

Response == [content |-> Str_Hi]

\* Requests whose last message exercises the title pattern: words of 1, 99, 100
\* and 101 characters, alone and separated by a blank or a line feed.
WordLengths == {1, TitleLimit - 1, TitleLimit, TitleLimit + 1}
Separators == {" ", "\n"}
TitleContents ==
    {<<>>}
        \cup {Rep("a", n) : n \in WordLengths}
        \cup {Rep("a", n) \o <<sep>> \o Rep("b", k) :
                n \in WordLengths \cup {0}, sep \in Separators, k \in WordLengths \cup {0}}
        \cup {Rep("a", n) \o <<sep1>> \o <<"b">> \o <<sep2>> \o Rep("c", k) :
                n \in {1, TitleLimit}, sep1 \in Separators, sep2 \in Separators,
                k \in {1, TitleLimit}}
TitleRequests ==
    { [messages |-> NULL], [messages |-> Item(<<>>)],
      [messages |-> Item(<<[content |-> NULL]>>)] }
        \cup {[messages |-> Item(<<[content |-> Item(c)]>>)] : c \in TitleContents}
        \cup {[messages |-> Item(<<[content |-> Item(Str_a_b)], [content |-> Item(c)]>>)] :
                c \in {Str_Hi, Rep("a", TitleLimit + 1)}}

\* Chat History Service.  Session ids are the clock values written as strings.
\* The calls name the id of the first millisecond, which is the id of no
\* session until createSession runs in that millisecond, or no id at all.
HistorySessionIds == {toString(t) : t \in 1..MaxTime}
HistoryArgIds == {toString(1), NULL}

SessionNames == {NULL, <<" ", "n">>}
NewNames == {<<"r", " ">>}
BlankNames == {<<>>, <<" ">>}

HistoryMessage(id, timestamp, sessionId, content, text) ==
    [id |-> id, timestamp |-> timestamp, createdAt |-> 0,
     sessionId |-> sessionId, content |-> content, text |-> text]

HistoryMessages ==
    { Item(HistoryMessage(NULL, 0, NULL, Item(Rep("a", PreviewLimit + 1)), NULL)),
      Item(HistoryMessage(NULL, 0, NULL, Item(Rep("a", PreviewLimit)), NULL)),
      Item(HistoryMessage(Item(<<"m">>), 1, Item(<<"x">>), NULL, Item(Str_a_b))) }

\* What an earlier page load left in localStorage: sessions "1" and "2", as
\* createSession and addMessage store them.
StoredSession(id) ==
    [id |-> id, title |-> <<"t">>, name |-> <<"t">>, lastActivity |-> 1,
     createdAt |-> 1, previewText |-> NewChatSessionText]
StoredSessionLists ==
    { <<>>, <<StoredSession(toString(1))>>,
      <<StoredSession(toString(1)), StoredSession(toString(2))>>,
      <<StoredSession(toString(2)), StoredSession(toString(1))>> }
StoredMessage(sessionId) ==
    [id |-> toString(1), timestamp |-> 1, createdAt |-> 1, sessionId |-> sessionId,
     content |-> Item(Str_Hi), text |-> NULL]
StoredLogs(sessionId) == {NULL, Item(<<StoredMessage(sessionId)>>)}

\* The reads of the History Service, and the logs they read: at most MaxStored
\* messages, as addMessage stores them, or a text that is no JSON.
Limits == {NULL, Item(0), Item(1), Item(2)}
Keywords == {NULL, Item(<<>>), Item(<<"H", "I">>), Item(<<"a">>)}

LoggedMessage(id, timestamp, content, text) ==
    [id |-> id, timestamp |-> timestamp, createdAt |-> timestamp,
     sessionId |-> toString(1), content |-> content, text |-> text]
LoggedMessages ==
    { LoggedMessage(<<"a">>, 1, Item(Str_Hi), NULL),
      LoggedMessage(<<"b">>, 2, NULL, Item(<<"h", "i", " ", "a">>)),
      LoggedMessage(<<"c">>, 3, Item(Str_Hi), Item(<<"b">>)),
      LoggedMessage(<<"d">>, 2, Item(<<"a">>), NULL) }
SeqsUpTo(S, n) == UNION {[1..k -> S] : k \in 0..n}
BrokenText == <<"{">>
StoredHistoryLogs ==
    {NULL, Unparsable(BrokenText)} \cup {Item(l) : l \in SeqsUpTo(LoggedMessages, MaxStored)}

\* The reads of the Message Store, and the message lists they read.
SessionIdArgs == {StringArg(toString(1))}
MessageIdArgs == {NumberArg(1), NumberArg(3), StringArg(toString(1)), StringArg(<<"x">>)}
StoredChatMessage(id) ==
    [id |-> id, sessionId |-> 1, previousMessageId |-> NULL,
     request |-> [messages |-> Item(<<[content |-> Item(Str_a_b)]>>)],
     response |-> [content |-> Str_Hi], cumulativeInputLength |-> 0, updatedAt |-> 1]
StoredChatLists ==
    {Unparsable(BrokenText), Unparsable(NotFoundText)}
        \cup {Item(l) : l \in { <<>>, <<StoredChatMessage(1)>>, <<StoredChatMessage(2)>>,
                                <<StoredChatMessage(1), StoredChatMessage(2)>> }}

\* Checkpoint Service.
CheckpointSessionIds == {<<"A">>}
CheckpointArgIds == CheckpointSessionIds \cup {NULL}
\* Two sessions, for the calls that are followed on both.
BothSessionIds == CheckpointSessionIds \cup {<<"B">>}
Labels == {<<>>, <<"l">>}
CallerContents == {StringValue(Str_Hi), NaNValue}
RetrieveArgs == {NumberArg(0), NumberArg(1), StringArg(toString(1))}
\* Further arguments: a negative index, an index past the end of the longest
\* stored list, the id of the second stored checkpoint and an unknown id.
StoredRetrieveArgs ==
    RetrieveArgs \cup {NumberArg(0 - 1), NumberArg(2), StringArg(toString(2)),
                       StringArg(toString(3))}
StoredCheckpoint(t) ==
    [id |-> toString(t), label |-> defaultLabel(t), messageId |-> 1,
     currentMessage |-> jsonClone([id |-> 1, content |-> StringValue(Str_Hi)]),
     timestamp |-> t, createdAt |-> t]
StoredCheckpointLists ==
    {NULL, Unparsable(BrokenText)}
        \cup {Item(l) : l \in { <<>>, <<StoredCheckpoint(1)>>,
                                <<StoredCheckpoint(1), StoredCheckpoint(2)>>,
                                <<StoredCheckpoint(2), StoredCheckpoint(1)>> }}

\* Agent State Storage.
AgentIds == {<<"a">>, <<"b">>}
NamedAgentCheckpoints ==
    { [agentId |-> <<"a">>, name |-> <<"n">>, state |-> 1, createdAt |-> 0],
      [agentId |-> <<"a">>, name |-> <<"m">>, state |-> 2, createdAt |-> 1],
      [agentId |-> <<"b">>, name |-> <<"n">>, state |-> 1, createdAt |-> 0] }
AgentCheckpointIds ==
    {a \o <<"_">> \o toString(t) : a \in AgentIds, t \in 1..MaxTime}
AgentArgIds == AgentCheckpointIds \cup {NULL}
AgentRetrieveIds == {<<"a">> \o <<"_">> \o toString(1), NULL}

-----------------------------------------------------------------------------
(* Initial state: an empty localStorage and the service just constructed *)

HistoryKeys == {sessionsListKey} \cup {_getSessionKey(id) : id \in HistorySessionIds}
CheckpointKeys == {_getStorageKey(id) : id \in BothSessionIds}
AgentKeys == {agentCheckpointsKey}

Keys == MessageStoreKeys \cup HistoryKeys \cup CheckpointKeys \cup AgentKeys

NoCall == [op |-> "none", raised |-> {}]
NoRet == [status |-> "none", value |-> NULL]
NoIds == [sessionId |-> <<>>, messageId |-> <<>>, since |-> "construction"]
NoLog == [s \in BothSessionIds |-> <<>>]

EmptyStorage == [k \in Keys |-> NULL]

\* Two pages (browser tabs) with a Message Store each, on the same storage
\* prefix.  A page's storeChat call is followed statement by statement: the
\* values it has read and computed are its own, localStorage is shared.
Tabs == {1, 2}
IdleTab ==
    [pc |-> "idle", currentMessage |-> NULL, type |-> "none", sessions |-> <<>>,
     counters |-> EmptyCounters, sessionId |-> 0, messages |-> <<>>, id |-> 0,
     message |-> NULL, wroteAfterOther |-> FALSE]
NoTabs == [tab \in Tabs |-> IdleTab]

\* The constructor of the Message Store runs initializeStorage; the other three
\* constructors write nothing.
Init ==
    /\ service \in Services
    /\ now = 1
    /\ localStorage = IF service = "MessageStore"
                      THEN initializeStorage(EmptyStorage, {}).ls
                      ELSE EmptyStorage
    /\ call = NoCall
    /\ ret = NoRet
    /\ allocated = NoIds
    /\ createdLog = NoLog
    /\ callerMessage = [id |-> 1, content |-> StringValue(Str_Hi)]
    /\ tabs = NoTabs

\* Time passes: Date.now() returns a larger value on the next call.
Tick ==
    /\ now < MaxTime
    /\ now' = now + 1
    /\ UNCHANGED <<service, tabs, localStorage, call, ret, allocated, createdLog, callerMessage>>

Return(r) == [status |-> r.status, value |-> r.value]

-----------------------------------------------------------------------------
(* Message Store actions *)

CountersNow == OrElse(getItem(localStorage, countersKey), EmptyCounters)

\* storeChat with its request argument drawn from requests.
StoreChatOf(requests) ==
    /\ service = "MessageStore"
    /\ CountersNow.sessionId <= MaxId
    /\ CountersNow.messageId <= MaxId
    /\ \E cm \in CurrentMessages, request \in requests :
       \E raises \in RaiseOne(IF cm.sessionId = 0 THEN 4 ELSE 2) :
        LET r == storeChat(localStorage, cm, request, Response, now, raises)
        IN  /\ localStorage' = r.ls
            /\ call' = [op |-> "storeChat", currentMessage |-> cm,
                        request |-> request, raised |-> raises]
            /\ ret' = [status |-> IF r.threw THEN "error" ELSE "ok",
                       value |-> r.message]
            /\ allocated' = [allocated EXCEPT !.sessionId = @ \o r.sessionIds,
                                              !.messageId = @ \o r.messageIds]
    /\ UNCHANGED <<service, tabs, now, createdLog, callerMessage>>

StoreChat == StoreChatOf(Requests)

\* The first call of the page: storeChat on the store just constructed, with
\* the request drawn from the requests that exercise the title.
StoreFirstChat ==
    /\ call = NoCall
    /\ StoreChatOf(TitleRequests)

ClearAllData ==
    /\ service = "MessageStore"
    /\ \E raises \in RaiseOne(3) :
        LET r == clearAllData(localStorage, raises)
        IN  /\ localStorage' = r.ls
            /\ call' = [op |-> "clearAllData", raised |-> raises]
            /\ ret' = [status |-> IF r.threw THEN "error" ELSE "ok", value |-> NULL]
    /\ allocated' = [NoIds EXCEPT !.since = "clearAllData"]
    /\ UNCHANGED <<service, tabs, now, createdLog, callerMessage>>

RetrieveMessageById ==
    /\ service = "MessageStore"
    /\ \E id \in MessageIdArgs, quotesSource \in BOOLEAN :
        LET r == retrieveMessageById(localStorage, id, quotesSource)
        IN  /\ localStorage' = r.ls
            /\ call' = [op |-> "retrieveMessageById", id |-> id, raised |-> r.raised]
            /\ ret' = Return(r)
    /\ UNCHANGED <<service, tabs, now, allocated, createdLog, callerMessage>>

RetrieveMessagesBySession ==
    /\ service = "MessageStore"
    /\ \E sessionId \in SessionIdArgs :
        LET r == retrieveMessagesBySession(localStorage, sessionId)
        IN  /\ localStorage' = r.ls
            /\ call' = [op |-> "retrieveMessagesBySession", sessionId |-> sessionId,
                        raised |-> r.raised]
            /\ ret' = Return(r)
    /\ UNCHANGED <<service, tabs, now, allocated, createdLog, callerMessage>>

RetrieveAllSessions ==
    /\ service = "MessageStore"
    /\ LET r == retrieveAllSessions(localStorage)
       IN  /\ localStorage' = r.ls
           /\ call' = [op |-> "retrieveAllSessions", raised |-> r.raised]
           /\ ret' = Return(r)
    /\ UNCHANGED <<service, tabs, now, allocated, createdLog, callerMessage>>

\* retrieveMessageById with a number.
RetrieveMessageByNumber ==
    /\ service = "MessageStore"
    /\ \E id \in {NumberArg(1)} :
        LET r == retrieveMessageById(localStorage, id, FALSE)
        IN  /\ localStorage' = r.ls
            /\ call' = [op |-> "retrieveMessageById", id |-> id, raised |-> r.raised]
            /\ ret' = Return(r)
    /\ UNCHANGED <<service, tabs, now, allocated, createdLog, callerMessage>>

NextMessageStore == Tick \/ StoreChat \/ ClearAllData

\* The store's writing and reading methods together.
NextStoreAndRetrieve ==
    \/ Tick
    \/ StoreChat
    \/ ClearAllData
    \/ RetrieveMessageByNumber
    \/ RetrieveMessagesBySession
    \/ RetrieveAllSessions

-----------------------------------------------------------------------------
(* Message Store: storeChat of two pages, one localStorage access per step.  *)
(* No setItem raises here.                                                  *)

TabRequest(tab) ==
    [messages |-> Item(<<[content |-> Item(IF tab = 1 THEN Str_a_b ELSE Str_Hi)]>>)]

OtherTab(tab) == CHOOSE other \in Tabs : other # tab

TabUnchanged == UNCHANGED <<service, now, call, ret, allocated, createdLog, callerMessage>>

\* storeChat is entered: without a session id it goes on to storeSession.
TabStoreChat(tab) ==
    /\ service = "MessageStore"
    /\ tabs[tab].pc = "idle"
    /\ \E cm \in CurrentMessages :
        tabs' = [tabs EXCEPT ![tab] =
                    [@ EXCEPT !.pc = IF cm.sessionId = 0 THEN "storeSession"
                                     ELSE "readMessages",
                              !.currentMessage = Item(cm),
                              !.sessionId = cm.sessionId]]
    /\ UNCHANGED localStorage
    /\ TabUnchanged

\* storeSession: const sessions = JSON.parse(localStorage.getItem(sessionsKey) || "[]")
TabReadSessions(tab) ==
    /\ tabs[tab].pc = "storeSession"
    /\ tabs' = [tabs EXCEPT ![tab] =
                    [@ EXCEPT !.pc = "getNextId", !.type = "sessionId",
                              !.sessions = OrElse(getItem(localStorage, sessionsKey), <<>>)]]
    /\ UNCHANGED localStorage
    /\ TabUnchanged

\* getNextId: const counters = JSON.parse(localStorage.getItem(countersKey) || "{}")
TabReadCounters(tab) ==
    /\ tabs[tab].pc = "getNextId"
    /\ tabs' = [tabs EXCEPT ![tab] =
                    [@ EXCEPT !.pc = "setCounters",
                              !.counters = OrElse(getItem(localStorage, countersKey),
                                                  EmptyCounters)]]
    /\ UNCHANGED localStorage
    /\ TabUnchanged

\* getNextId: localStorage.setItem(countersKey, ...); return nextId
TabWriteCounters(tab) ==
    /\ tabs[tab].pc = "setCounters"
    /\ LET type == tabs[tab].type
           counters == tabs[tab].counters
           nextId == IF counters[type] # 0 THEN counters[type] ELSE 1
       IN  /\ localStorage' = setItem(localStorage, countersKey,
                                      [counters EXCEPT ![type] = nextId + 1])
           /\ tabs' = [tabs EXCEPT ![tab] =
                          IF type = "sessionId"
                          THEN [@ EXCEPT !.pc = "setSessions", !.sessionId = nextId]
                          ELSE [@ EXCEPT !.pc = "setMessages", !.id = nextId]]
    /\ TabUnchanged

\* storeSession: sessions.push(session); localStorage.setItem(sessionsKey, ...)
TabWriteSessions(tab) ==
    /\ tabs[tab].pc = "setSessions"
    /\ localStorage' =
          setItem(localStorage, sessionsKey,
                  Append(tabs[tab].sessions,
                         [id |-> tabs[tab].sessionId,
                          title |-> deriveTitle(lastContent(TabRequest(tab)))]))
    /\ tabs' = [tabs EXCEPT ![tab] = [@ EXCEPT !.pc = "readMessages"]]
    /\ TabUnchanged

\* storeChat: const messages = JSON.parse(localStorage.getItem(messagesKey) || "[]")
TabReadMessages(tab) ==
    /\ tabs[tab].pc = "readMessages"
    /\ tabs' = [tabs EXCEPT ![tab] =
                    [@ EXCEPT !.pc = "getNextId", !.type = "messageId",
                              !.messages = OrElse(getItem(localStorage, messagesKey), <<>>)]]
    /\ UNCHANGED localStorage
    /\ TabUnchanged

\* The message storeChat builds.
TabMessage(tab) ==
    [id |-> tabs[tab].id, sessionId |-> tabs[tab].sessionId,
     previousMessageId |-> IF tabs[tab].currentMessage[1].id # 0
                           THEN Item(tabs[tab].currentMessage[1].id) ELSE NULL,
     request |-> TabRequest(tab), response |-> Response,
     cumulativeInputLength |-> 0, updatedAt |-> now]

\* A last step that reads the list again and appends to what it finds.
TabWriteMessagesReadAgain(tab) ==
    /\ tabs[tab].pc = "setMessages"
    /\ localStorage' =
          setItem(localStorage, messagesKey,
                  Append(OrElse(getItem(localStorage, messagesKey), <<>>), TabMessage(tab)))
    /\ tabs' = [tabs EXCEPT ![tab] =
                    [@ EXCEPT !.pc = "returned", !.message = Item(TabMessage(tab)),
                              !.wroteAfterOther = tabs[OtherTab(tab)].pc = "returned"]]
    /\ TabUnchanged

\* storeChat: messages.push(message); localStorage.setItem(messagesKey, ...);
\* return Promise.resolve(message).  wroteAfterOther notes whether the other
\* page had written its message before.
TabWriteMessages(tab) ==
    /\ tabs[tab].pc = "setMessages"
    /\ localStorage' =
          setItem(localStorage, messagesKey, Append(tabs[tab].messages, TabMessage(tab)))
    /\ tabs' = [tabs EXCEPT ![tab] =
                    [@ EXCEPT !.pc = "returned", !.message = Item(TabMessage(tab)),
                              !.wroteAfterOther = tabs[OtherTab(tab)].pc = "returned"]]
    /\ TabUnchanged

NextTwoTabs ==
    \/ \E tab \in Tabs : TabStoreChat(tab)
    \/ \E tab \in Tabs : TabReadSessions(tab)
    \/ \E tab \in Tabs : TabReadCounters(tab)
    \/ \E tab \in Tabs : TabWriteCounters(tab)
    \/ \E tab \in Tabs : TabWriteSessions(tab)
    \/ \E tab \in Tabs : TabReadMessages(tab)
    \/ \E tab \in Tabs : TabWriteMessages(tab)

-----------------------------------------------------------------------------
(* Chat History Service actions *)

StoredMessages ==
    LET RECURSIVE Sum(_)
        Sum(S) == IF S = {} THEN 0
                  ELSE LET id == CHOOSE x \in S : TRUE
                       IN  Len(_getMessages(localStorage, id)) + Sum(S \ {id})
    IN  Sum(HistorySessionIds)

\* getChatHistoryByMessageId(messageId): warns that it has no sessionId to look
\* under and resolves with an empty array; it reads no key.
getChatHistoryByMessageId(ls, messageId) ==
    [ls |-> ls, status |-> "ok", value |-> <<>>, raised |-> {}]

GetChatHistoryByMessageId ==
    /\ service = "HistoryService"
    /\ \E messageId \in HistoryArgIds :
        LET r == getChatHistoryByMessageId(localStorage, messageId)
        IN  /\ localStorage' = r.ls
            /\ call' = [op |-> "getChatHistoryByMessageId", messageId |-> messageId,
                        raised |-> r.raised]
            /\ ret' = Return(r)
    /\ UNCHANGED <<service, tabs, now, allocated, createdLog, callerMessage>>

ListSessions ==
    /\ service = "HistoryService"
    /\ LET r == listSessions(localStorage)
       IN  /\ localStorage' = r.ls
           /\ call' = [op |-> "listSessions", raised |-> r.raised]
           /\ ret' = Return(r)
    /\ UNCHANGED <<service, tabs, now, allocated, createdLog, callerMessage>>

\* createSession on a stored list of fewer than n sessions.
CreateSessionUpTo(n) ==
    /\ service = "HistoryService"
    /\ Len(_getSessionsList(localStorage)) < n
    /\ \E name \in SessionNames, raises \in RaiseAny(2) :
        LET r == createSession(localStorage, name, now, raises)
        IN  /\ localStorage' = r.ls
            /\ call' = [op |-> "createSession", name |-> name, raised |-> r.raised]
            /\ ret' = Return(r)
    /\ UNCHANGED <<service, tabs, now, allocated, createdLog, callerMessage>>

\* The model follows one chat session: createSession runs on an empty list.
CreateSession == CreateSessionUpTo(1)

\* createSession while other sessions are stored.
CreateAnotherSession == CreateSessionUpTo(MaxSessions)

DeleteSession ==
    /\ service = "HistoryService"
    /\ \E sessionId \in HistoryArgIds, raises \in RaiseAny(1) :
        LET r == deleteSession(localStorage, sessionId, raises)
        IN  /\ localStorage' = r.ls
            /\ call' = [op |-> "deleteSession", sessionId |-> sessionId,
                        raised |-> r.raised]
            /\ ret' = Return(r)
    /\ UNCHANGED <<service, tabs, now, allocated, createdLog, callerMessage>>

\* renameSession with its newName argument drawn from names.
RenameSessionOf(names) ==
    /\ service = "HistoryService"
    /\ \E sessionId \in HistoryArgIds, newName \in names, raises \in RaiseAny(1) :
        LET r == renameSession(localStorage, sessionId, newName, now, raises)
        IN  /\ localStorage' = r.ls
            /\ call' = [op |-> "renameSession", sessionId |-> sessionId,
                        newName |-> newName, raised |-> r.raised]
            /\ ret' = Return(r)
    /\ UNCHANGED <<service, tabs, now, allocated, createdLog, callerMessage>>

RenameSession == RenameSessionOf(NewNames)

\* renameSession on the sessions of an earlier page load, blank names included.
RenameStoredSession == RenameSessionOf(NewNames \cup BlankNames)

AddMessage ==
    /\ service = "HistoryService"
    /\ StoredMessages < MaxLog
    /\ \E sessionId \in HistoryArgIds, message \in HistoryMessages, raises \in RaiseAny(2) :
        LET r == addMessage(localStorage, sessionId, message, now, raises)
        IN  /\ localStorage' = r.ls
            /\ call' = [op |-> "addMessage", sessionId |-> sessionId,
                        message |-> message, raised |-> r.raised]
            /\ ret' = Return(r)
    /\ UNCHANGED <<service, tabs, now, allocated, createdLog, callerMessage>>

ClearSessionHistory ==
    /\ service = "HistoryService"
    /\ \E sessionId \in HistoryArgIds, raises \in RaiseAny(2) :
        LET r == clearSessionHistory(localStorage, sessionId, now, raises)
        IN  /\ localStorage' = r.ls
            /\ call' = [op |-> "clearSessionHistory", sessionId |-> sessionId,
                        raised |-> r.raised]
            /\ ret' = Return(r)
    /\ UNCHANGED <<service, tabs, now, allocated, createdLog, callerMessage>>

GetRecentMessages ==
    /\ service = "HistoryService"
    /\ \E sessionId \in HistoryArgIds, limit \in Limits :
        LET r == getRecentMessages(localStorage, sessionId, limit)
        IN  /\ localStorage' = r.ls
            /\ call' = [op |-> "getRecentMessages", sessionId |-> sessionId,
                        limit |-> limit, raised |-> r.raised]
            /\ ret' = Return(r)
    /\ UNCHANGED <<service, tabs, now, allocated, createdLog, callerMessage>>

GetThreadTree ==
    /\ service = "HistoryService"
    /\ \E sessionId \in HistoryArgIds :
        LET r == getThreadTree(localStorage, sessionId)
        IN  /\ localStorage' = r.ls
            /\ call' = [op |-> "getThreadTree", sessionId |-> sessionId,
                        raised |-> r.raised]
            /\ ret' = Return(r)
    /\ UNCHANGED <<service, tabs, now, allocated, createdLog, callerMessage>>

SearchMessages ==
    /\ service = "HistoryService"
    /\ \E keyword \in Keywords, sessionId \in HistoryArgIds :
        LET r == searchMessages(localStorage, keyword, sessionId)
        IN  /\ localStorage' = r.ls
            /\ call' = [op |-> "searchMessages", keyword |-> keyword,
                        sessionId |-> sessionId, raised |-> r.raised]
            /\ ret' = Return(r)
    /\ UNCHANGED <<service, tabs, now, allocated, createdLog, callerMessage>>

NextHistoryService ==
    \/ Tick
    \/ CreateSession
    \/ DeleteSession
    \/ RenameSession
    \/ AddMessage
    \/ ClearSessionHistory

-----------------------------------------------------------------------------
(* Checkpoint Service actions *)

CreatedCheckpoints ==
    LET RECURSIVE Sum(_)
        Sum(S) == IF S = {} THEN 0
                  ELSE LET id == CHOOSE x \in S : TRUE
                       IN  Len(createdLog[id]) + Sum(S \ {id})
    IN  Sum(BothSessionIds)

\* The caller changes, in place, the object it passes as currentMessage.
MutateCallerMessage ==
    /\ service = "CheckpointService"
    /\ \E content \in CallerContents \ {callerMessage.content} :
        callerMessage' = [callerMessage EXCEPT !.content = content]
    /\ UNCHANGED <<service, tabs, now, localStorage, call, ret, allocated, createdLog>>

\* createdLog records, per session, what each call was given and what it returned.
CreateCheckpointOf(sessionIds) ==
    /\ service = "CheckpointService"
    /\ CreatedCheckpoints < MaxCheckpoints
    /\ \E label \in Labels, currentMessage \in {NULL, Item(callerMessage)},
          sessionId \in sessionIds, raises \in RaiseAny(1) :
        LET r == createCheckpoint(localStorage, label, currentMessage, sessionId,
                                  now, raises)
        IN  /\ localStorage' = r.ls
            /\ call' = [op |-> "createCheckpoint", label |-> label,
                        currentMessage |-> currentMessage, sessionId |-> sessionId,
                        raised |-> r.raised]
            /\ ret' = Return(r)
            /\ createdLog' =
                 IF r.status = "ok"
                 THEN [createdLog EXCEPT ![sessionId] =
                         Append(@, [passed |-> currentMessage[1],
                                    checkpoint |-> r.value[1]])]
                 ELSE createdLog
    /\ UNCHANGED <<service, tabs, now, allocated, callerMessage>>

CreateCheckpoint == CreateCheckpointOf(CheckpointArgIds)

\* createCheckpoint for either of two sessions.
CreateCheckpointOfEither == CreateCheckpointOf(BothSessionIds)

RetrieveCheckpointOf(args) ==
    /\ service = "CheckpointService"
    /\ \E idOrIdx \in args, sessionId \in CheckpointArgIds :
        LET r == retrieveCheckpoint(localStorage, idOrIdx, sessionId)
        IN  /\ localStorage' = r.ls
            /\ call' = [op |-> "retrieveCheckpoint", idOrIdx |-> idOrIdx,
                        sessionId |-> sessionId, raised |-> r.raised]
            /\ ret' = Return(r)
    /\ UNCHANGED <<service, tabs, now, allocated, createdLog, callerMessage>>

RetrieveCheckpoint == RetrieveCheckpointOf(RetrieveArgs)

\* retrieveCheckpoint on stored lists, with the further arguments.
RetrieveStoredCheckpoint == RetrieveCheckpointOf(StoredRetrieveArgs)

ListCheckpointOf(sessionIds) ==
    /\ service = "CheckpointService"
    /\ \E sessionId \in sessionIds :
        LET r == listCheckpoint(localStorage, sessionId)
        IN  /\ localStorage' = r.ls
            /\ call' = [op |-> "listCheckpoint", sessionId |-> sessionId,
                        raised |-> r.raised]
            /\ ret' = Return(r)
    /\ UNCHANGED <<service, tabs, now, allocated, createdLog, callerMessage>>

ListCheckpoint == ListCheckpointOf(CheckpointArgIds)

ListCheckpointOfEither == ListCheckpointOf(BothSessionIds)

ClearAllCheckpointsOf(sessionIds) ==
    /\ service = "CheckpointService"
    /\ \E sessionId \in sessionIds, raises \in RaiseAny(1) :
        LET r == clearAllCheckpoints(localStorage, sessionId, raises)
        IN  /\ localStorage' = r.ls
            /\ call' = [op |-> "clearAllCheckpoints", sessionId |-> sessionId,
                        raised |-> r.raised]
            /\ ret' = Return(r)
            /\ createdLog' =
                 IF r.status = "ok" /\ r.raised = {}
                 THEN [createdLog EXCEPT ![sessionId] = <<>>]
                 ELSE createdLog
    /\ UNCHANGED <<service, tabs, now, allocated, callerMessage>>

ClearAllCheckpoints == ClearAllCheckpointsOf(CheckpointArgIds)

ClearAllCheckpointsOfEither == ClearAllCheckpointsOf(BothSessionIds)

NextCheckpointService ==
    \/ Tick
    \/ MutateCallerMessage
    \/ CreateCheckpoint
    \/ RetrieveCheckpoint
    \/ ListCheckpoint
    \/ ClearAllCheckpoints

-----------------------------------------------------------------------------
(* Agent State Storage actions *)

StoreCheckpoint ==
    /\ service = "AgentStateStorage"
    /\ Len(_getAllCheckpoints(localStorage)) < MaxCheckpoints
    /\ \E checkpoint \in NamedAgentCheckpoints, raises \in RaiseAny(1) :
        LET r == storeCheckpoint(localStorage, checkpoint, now, raises)
        IN  /\ localStorage' = r.ls
            /\ call' = [op |-> "storeCheckpoint", checkpoint |-> checkpoint,
                        raised |-> r.raised]
            /\ ret' = Return(r)
    /\ UNCHANGED <<service, tabs, now, allocated, createdLog, callerMessage>>

DeleteCheckpoint ==
    /\ service = "AgentStateStorage"
    /\ \E checkpointId \in AgentArgIds, raises \in RaiseAny(1) :
        LET r == deleteCheckpoint(localStorage, checkpointId, raises)
        IN  /\ localStorage' = r.ls
            /\ call' = [op |-> "deleteCheckpoint", checkpointId |-> checkpointId,
                        raised |-> r.raised]
            /\ ret' = Return(r)
    /\ UNCHANGED <<service, tabs, now, allocated, createdLog, callerMessage>>

AgentRetrieveCheckpoint ==
    /\ service = "AgentStateStorage"
    /\ \E checkpointId \in AgentRetrieveIds :
        LET r == agentRetrieveCheckpoint(localStorage, checkpointId)
        IN  /\ localStorage' = r.ls
            /\ call' = [op |-> "agentRetrieveCheckpoint", checkpointId |-> checkpointId,
                        raised |-> r.raised]
            /\ ret' = Return(r)
    /\ UNCHANGED <<service, tabs, now, allocated, createdLog, callerMessage>>

AgentListCheckpoints ==
    /\ service = "AgentStateStorage"
    /\ LET r == agentListCheckpoints(localStorage)
       IN  /\ localStorage' = r.ls
           /\ call' = [op |-> "agentListCheckpoints", raised |-> r.raised]
           /\ ret' = Return(r)
    /\ UNCHANGED <<service, tabs, now, allocated, createdLog, callerMessage>>

AgentClearAllCheckpoints ==
    /\ service = "AgentStateStorage"
    /\ \E raises \in RaiseAny(1) :
        LET r == agentClearAllCheckpoints(localStorage, raises)
        IN  /\ localStorage' = r.ls
            /\ call' = [op |-> "agentClearAllCheckpoints", raised |-> r.raised]
            /\ ret' = Return(r)
    /\ UNCHANGED <<service, tabs, now, allocated, createdLog, callerMessage>>

NextAgentStateStorage ==
    \/ Tick
    \/ StoreCheckpoint
    \/ AgentRetrieveCheckpoint
    \/ AgentListCheckpoints
    \/ DeleteCheckpoint
    \/ AgentClearAllCheckpoints

-----------------------------------------------------------------------------
(* Specifications *)

\* The four services keep to their own keys and never call one another, so a
\* behaviour exercises the one service constructed in the initial state.
Next ==
    \/ Tick
    \/ StoreChat
    \/ ClearAllData
    \/ CreateSession
    \/ DeleteSession
    \/ RenameSession
    \/ AddMessage
    \/ ClearSessionHistory
    \/ MutateCallerMessage
    \/ CreateCheckpoint
    \/ RetrieveCheckpoint
    \/ ListCheckpoint
    \/ ClearAllCheckpoints
    \/ StoreCheckpoint
    \/ AgentRetrieveCheckpoint
    \/ AgentListCheckpoints
    \/ DeleteCheckpoint
    \/ AgentClearAllCheckpoints

Spec == Init /\ [][Next]_vars

InitMessageStore == Init /\ service = "MessageStore"

SpecMessageStore == InitMessageStore /\ [][NextMessageStore]_vars

\* Two pages with a Message Store each, both constructed, each calling
\* storeChat once.
SpecStoreAndRetrieve == InitMessageStore /\ [][NextStoreAndRetrieve]_vars

SpecTwoTabs == InitMessageStore /\ [][NextTwoTabs]_vars

\* The Message Store just constructed, and its first storeChat.
NextFirstChat == Tick \/ StoreFirstChat

SpecFirstChat == InitMessageStore /\ [][NextFirstChat]_vars

InitHistoryService == Init /\ service = "HistoryService"

SpecHistoryService == InitHistoryService /\ [][NextHistoryService]_vars

\* The History Service with several sessions created one after the other.
NextSessionList ==
    \/ Tick
    \/ CreateAnotherSession
    \/ RenameSession
    \/ AddMessage
    \/ DeleteSession

SpecSessionList == InitHistoryService /\ [][NextSessionList]_vars

\* The History Service constructed over the sessions of an earlier page load.
InitHistoryStored ==
    /\ service = "HistoryService"
    /\ now = 1
    /\ \E sessions \in StoredSessionLists, log2 \in StoredLogs(toString(2)) :
            localStorage = [EmptyStorage EXCEPT
                               ![sessionsListKey] = Item(sessions),
                               ![_getSessionKey(toString(1))] =
                                   Item(<<StoredMessage(toString(1))>>),
                               ![_getSessionKey(toString(2))] = log2]
    /\ call = NoCall
    /\ ret = NoRet
    /\ allocated = NoIds
    /\ createdLog = NoLog
    /\ callerMessage = [id |-> 1, content |-> StringValue(Str_Hi)]
    /\ tabs = NoTabs

NextHistoryStored ==
    \/ Tick
    \/ DeleteSession
    \/ RenameStoredSession
    \/ AddMessage
    \/ ClearSessionHistory

SpecHistoryStored == InitHistoryStored /\ [][NextHistoryStored]_vars

\* The same, with listSessions.
NextStoredSessions == NextHistoryStored \/ ListSessions

SpecStoredSessions == InitHistoryStored /\ [][NextStoredSessions]_vars

\* A service constructed over what an earlier page load stored (the Message
\* Store's constructor seeds the keys that are missing), and its reads.
ReadServices == {"MessageStore", "HistoryService", "CheckpointService"}

StoredStorages(s) ==
    IF s = "MessageStore"
    THEN {initializeStorage([EmptyStorage EXCEPT ![messagesKey] = l], {}).ls :
            l \in StoredChatLists}
    ELSE IF s = "HistoryService"
    THEN {[EmptyStorage EXCEPT ![_getSessionKey(toString(1))] = l] :
            l \in StoredHistoryLogs}
    ELSE {[EmptyStorage EXCEPT ![_getStorageKey(id)] = l] :
            id \in CheckpointSessionIds, l \in StoredCheckpointLists}

InitStored ==
    /\ service \in ReadServices
    /\ now = 1
    /\ localStorage \in StoredStorages(service)
    /\ call = NoCall
    /\ ret = NoRet
    /\ allocated = NoIds
    /\ createdLog = NoLog
    /\ callerMessage = [id |-> 1, content |-> StringValue(Str_Hi)]
    /\ tabs = NoTabs

NextStoredReads ==
    \/ RetrieveMessageById
    \/ GetRecentMessages
    \/ GetThreadTree
    \/ SearchMessages
    \/ RetrieveStoredCheckpoint
    \/ ListCheckpoint

SpecStoredReads == InitStored /\ [][NextStoredReads]_vars

InitCheckpointService == Init /\ service = "CheckpointService"

SpecCheckpointService == InitCheckpointService /\ [][NextCheckpointService]_vars

\* The Checkpoint Service used for two sessions.
NextTwoSessions ==
    \/ Tick
    \/ CreateCheckpointOfEither
    \/ ListCheckpointOfEither
    \/ ClearAllCheckpointsOfEither

SpecTwoSessions == InitCheckpointService /\ [][NextTwoSessions]_vars

InitAgentStateStorage == Init /\ service = "AgentStateStorage"

SpecAgentStateStorage == InitAgentStateStorage /\ [][NextAgentStateStorage]_vars

-----------------------------------------------------------------------------
(* Properties: storage writes that raise *)

Range(seq) == {seq[i] : i \in 1..Len(seq)}

StrictlyIncreasing(seq) == \A i \in 1..(Len(seq) - 1) : seq[i] < seq[i + 1]

\* A step in which a method ran: the clock stands still (and the step is not a
\* stuttering one).  call' and ret' describe the method that ran.
CallStep == now' = now /\ call'.op # "none"

\* The keys in K hold after the step what they held before it.
Kept(K) == \A k \in K : localStorage'[k] = localStorage[k]

\* The methods that make one setItem call.
SingleWriteOps ==
    {"renameSession", "createCheckpoint", "clearAllCheckpoints",
     "storeCheckpoint", "deleteCheckpoint", "agentClearAllCheckpoints"}

\* The key each numbered setItem call of clearAllData writes.
ClearAllDataKey(n) == <<sessionsKey, messagesKey, countersKey>>[n]

\* C1 as stated: if a storage write raises during a mutating call, every storage
\* key holds after the call exactly the value it held before the call.
C1_AllKeysAtPreCallValue ==
    [][(CallStep /\ call'.raised # {}) => Kept(Keys)]_vars

\* C1, amended: a write that raises changes nothing itself, but what the call
\* did before it, and what a History Service call does after it, stays done.
\*  - a method with a single write, and storeChat whose first write raises,
\*    leave every key at its pre-call value;
\*  - storeChat always leaves the message list at its pre-call value (the
\*    counters and the session list keep what was written before the failure);
\*  - createSession, addMessage and clearSessionHistory leave the key whose
\*    write raised, and every key they do not write, at the pre-call value;
\*  - deleteSession leaves every key but the removed message log at its
\*    pre-call value;
\*  - clearAllData has removed its keys, and the key whose write raised is absent.
C1_FailedWriteChangesNothingItself ==
    [][(CallStep /\ call'.raised # {}) =>
        LET op == call'.op
            raised == call'.raised
        IN  /\ op \in SingleWriteOps => Kept(Keys)
            /\ op = "storeChat" =>
                 /\ Kept({messagesKey})
                 /\ 1 \in raised => Kept(Keys)
            /\ op = "createSession" =>
                 /\ 1 \in raised => Kept({sessionsListKey})
                 /\ 2 \in raised => Kept({_getSessionKey(toString(now))})
                 /\ Kept(Keys \ {sessionsListKey, _getSessionKey(toString(now))})
            /\ op \in {"addMessage", "clearSessionHistory"} =>
                 /\ 1 \in raised => Kept({_getSessionKey(call'.sessionId)})
                 /\ 2 \in raised => Kept({sessionsListKey})
                 /\ Kept(Keys \ {sessionsListKey, _getSessionKey(call'.sessionId)})
            /\ op = "deleteSession" =>
                 Kept(Keys \ {_getSessionKey(call'.sessionId)})
            /\ op = "clearAllData" =>
                 \A n \in raised : localStorage'[ClearAllDataKey(n)] = NULL
    ]_vars

\* A storeChat without a session id whose last write (the message list) raised:
\* the message list is empty as before, the counters and the session list have
\* moved on.
C1_Witness ==
    /\ call.op = "storeChat"
    /\ call.raised = {4}
    /\ ret.status = "error"
    /\ allocated.sessionId = <<1>>
    /\ allocated.messageId = <<1>>
    /\ getItem(localStorage, messagesKey) = Item(<<>>)
    /\ getItem(localStorage, countersKey) = Item([sessionId |-> 2, messageId |-> 2])
    /\ Len(getItem(localStorage, sessionsKey)[1]) = 1

\* C2 as stated: whenever a storage write raises during a mutating call, the
\* call completes with an error to its caller; it never reports success or
\* returns the new record.
C2_WriteFailureReachesCaller ==
    call.raised # {} => ret.status = "error"

-----------------------------------------------------------------------------
(* Properties: Message Store ids and counters *)

StoredSessions == OrElse(getItem(localStorage, sessionsKey), <<>>)
StoredChatMessages == OrElse(getItem(localStorage, messagesKey), <<>>)

\* C3: the session ids and the message ids handed out since the store was
\* initialized are each strictly increasing in allocation order, the first of
\* each being 1; the stored sessions carry their ids in that order.
C3_IdsIncreaseFromOne ==
    /\ \A type \in {"sessionId", "messageId"} :
        /\ StrictlyIncreasing(allocated[type])
        /\ allocated[type] # <<>> => allocated[type][1] = 1
    /\ StrictlyIncreasing([i \in 1..Len(StoredSessions) |-> StoredSessions[i].id])
    /\ StrictlyIncreasing([i \in 1..Len(StoredChatMessages) |-> StoredChatMessages[i].id])
    /\ \A i \in 1..Len(StoredSessions) : StoredSessions[i].id \in Range(allocated.sessionId)
    /\ \A i \in 1..Len(StoredChatMessages) :
          StoredChatMessages[i].id \in Range(allocated.messageId)

C3_Witness ==
    /\ allocated.since = "construction"
    /\ allocated.sessionId = <<1, 2>>
    /\ allocated.messageId = <<1, 2, 3>>
    /\ Len(StoredChatMessages) = 3

\* C4: a storeChat call whose currentMessage carries no sessionId, once it
\* returns its message, has added exactly one session to the stored session
\* list, and the sessionId of the returned message is that session's id, an id
\* no earlier call was given.
C4_OneNewSessionPerCall ==
    [][(/\ CallStep
        /\ call'.op = "storeChat"
        /\ call'.currentMessage.sessionId = 0
        /\ ret'.status = "ok") =>
        LET before == OrElse(getItem(localStorage, sessionsKey), <<>>)
            after == OrElse(getItem(localStorage', sessionsKey), <<>>)
        IN  /\ Len(after) = Len(before) + 1
            /\ SubSeq(after, 1, Len(before)) = before
            /\ after[Len(after)].id = ret'.value[1].sessionId
            /\ ret'.value[1].sessionId \notin Range(allocated.sessionId)
            /\ \A i \in 1..Len(before) : before[i].id # ret'.value[1].sessionId
    ]_vars

\* Two calls without a session id have returned: two sessions, and the stored
\* messages carry two different session ids.
C4_Witness ==
    /\ call.op = "storeChat"
    /\ call.currentMessage.sessionId = 0
    /\ ret.status = "ok"
    /\ Len(StoredSessions) = 2
    /\ Len(StoredChatMessages) = 2
    /\ StoredChatMessages[1].sessionId # StoredChatMessages[2].sessionId
    /\ ret.value[1].sessionId = 2

\* C5: the stored counters hold, for sessionId and for messageId, 1 plus the
\* number of ids of that kind handed out since the store was initialized or
\* last cleared, in every state a call leaves behind.  (A counter that is not
\* stored, after a clearAllData that could not seed it, is read as 1; no id has
\* then been handed out.)
C5_CountersCountAllocations ==
    LET counters == getItem(localStorage, countersKey)
    IN  \A type \in {"sessionId", "messageId"} :
          IF counters = NULL \/ counters[1][type] = 0
          THEN allocated[type] = <<>>
          ELSE counters[1][type] = 1 + Len(allocated[type])

\* Three sessions and two messages allocated: the counters are 4 and 3.
C5_Witness ==
    /\ Len(allocated.sessionId) = 3
    /\ Len(allocated.messageId) = 2
    /\ getItem(localStorage, countersKey) = Item([sessionId |-> 4, messageId |-> 3])

\* C6: a storeChat call without a sessionId that comes right after clearAllData
\* returns a message with id 1 in a session with id 1, and the stored session
\* list and message list then hold those two records and nothing else.
C6_ClearThenStoreStartsAtOne ==
    [][(/\ CallStep
        /\ call.op = "clearAllData"
        /\ call'.op = "storeChat"
        /\ call'.currentMessage.sessionId = 0
        /\ ret'.status = "ok") =>
        LET sessions == getItem(localStorage', sessionsKey)
            messages == getItem(localStorage', messagesKey)
        IN  /\ ret'.value[1].id = 1
            /\ ret'.value[1].sessionId = 1
            /\ sessions # NULL /\ Len(sessions[1]) = 1 /\ sessions[1][1].id = 1
            /\ messages = Item(<<ret'.value[1]>>)
    ]_vars

\* The store was cleared, and the one storeChat that has allocated since then
\* returned.
C6_Witness ==
    /\ allocated.since = "clearAllData"
    /\ call.op = "storeChat"
    /\ call.currentMessage.sessionId = 0
    /\ ret.status = "ok"
    /\ allocated.sessionId = <<1>>
    /\ allocated.messageId = <<1>>
    /\ ret.value[1].id = 1
    /\ StoredChatMessages = <<ret.value[1]>>

-----------------------------------------------------------------------------
(* Properties: Checkpoint Service *)

StoredCheckpoints(sessionId) == _getCheckpoints(localStorage, sessionId)

\* The checkpoint the session's most recent createCheckpoint call returned.
LatestCreated(sessionId) == createdLog[sessionId][Len(createdLog[sessionId])].checkpoint

\* C7 as stated: for a session with at least one checkpoint,
\* retrieveCheckpoint(0, sessionId) returns the checkpoint produced by the most
\* recent createCheckpoint call for that session (taken here only when that
\* checkpoint is in the stored list).
C7_IndexZeroIsLatestCreated ==
    \A sessionId \in CheckpointSessionIds :
        (/\ call.op = "retrieveCheckpoint"
         /\ call.idOrIdx = NumberArg(0)
         /\ call.sessionId = sessionId
         /\ createdLog[sessionId] # <<>>
         /\ LatestCreated(sessionId) \in Range(StoredCheckpoints(sessionId)))
        => ret.value = Item(LatestCreated(sessionId))

\* C8 as stated: within the stored checkpoint list of one session, of any two
\* checkpoints the one created later has the strictly larger timestamp.
C8_TimestampsStrictlyIncrease ==
    \A sessionId \in CheckpointSessionIds :
        LET list == StoredCheckpoints(sessionId)
        IN  \A i, j \in 1..Len(list) : i < j => list[i].timestamp < list[j].timestamp

\* list is createdLog's checkpoints with some left out, in the same order.
InCreationOrder(list, log) ==
    \E f \in [1..Len(list) -> 1..Len(log)] :
        /\ \A i \in 1..Len(list) : log[f[i]].checkpoint = list[i]
        /\ \A i, j \in 1..Len(list) : i < j => f[i] < f[j]

\* C8, amended: the stored checkpoint list of a session is in creation order
\* and its timestamps never decrease; two checkpoints created within the same
\* millisecond have the same timestamp (and the same id).
C8_TimestampsNeverDecrease ==
    \A sessionId \in CheckpointSessionIds :
        LET list == StoredCheckpoints(sessionId)
        IN  /\ InCreationOrder(list, createdLog[sessionId])
            /\ \A i, j \in 1..Len(list) :
                 i < j => /\ list[i].timestamp <= list[j].timestamp
                          /\ list[i].timestamp = list[j].timestamp
                               <=> list[i].id = list[j].id

\* Two checkpoints of one session created in the same millisecond, told apart
\* by their labels: the timestamps are equal.
C8_Witness ==
    \E sessionId \in CheckpointSessionIds :
        LET list == StoredCheckpoints(sessionId)
        IN  /\ Len(list) = 2
            /\ list[1].timestamp = list[2].timestamp
            /\ list[1].label # list[2].label
            /\ call.op = "createCheckpoint"

\* What JSON.parse(JSON.stringify(m)) of a message m with these field values is.
SerializedCopy(m) ==
    [id |-> m.id,
     content |-> IF m.content = NaNValue THEN NullValue ELSE m.content]

\* C9: the currentMessage of every stored checkpoint is the copy of the object
\* passed to createCheckpoint as it was when the call was made, whatever the
\* caller has done to the object since; retrieveCheckpoint and listCheckpoint
\* return stored checkpoints.
C9_StoredCopyUnaffectedByCaller ==
    \A sessionId \in CheckpointSessionIds :
        LET list == StoredCheckpoints(sessionId)
        IN  /\ \A i \in 1..Len(list) :
                 \E e \in Range(createdLog[sessionId]) :
                    /\ e.checkpoint = list[i]
                    /\ list[i].currentMessage = SerializedCopy(e.passed)
            /\ (/\ call.op = "retrieveCheckpoint"
                /\ call.sessionId = sessionId
                /\ ret.value # NULL) => ret.value[1] \in Range(list)
            /\ (/\ call.op = "listCheckpoint"
                /\ call.sessionId = sessionId) => Range(ret.value) = Range(list)

\* A checkpoint was created with the caller's message, the caller then changed
\* the content of its object, and retrieveCheckpoint returns the old content.
C9_Witness ==
    /\ call.op = "retrieveCheckpoint"
    /\ ret.value # NULL
    /\ ret.value[1].currentMessage.content = StringValue(Str_Hi)
    /\ callerMessage.content = NaNValue

-----------------------------------------------------------------------------
(* Properties: Chat History Service *)

\* The preview the contract describes: the first 50 characters, with an
\* ellipsis when the text is longer than that.
PreviewOfCutText(lastMessageText) ==
    LET text == OrElse(lastMessageText, <<>>)
    IN  IF Len(text) > PreviewLimit
        THEN SubSeq(text, 1, PreviewLimit) \o Ellipsis
        ELSE text

\* C10 as stated: addMessage on an existing session sets the session's stored
\* previewText to the first 50 characters of the message's content (or text),
\* followed by an ellipsis if and only if that field is longer than 50
\* characters, and refreshes lastActivity in the same call.
C10_PreviewEllipsisIffLonger ==
    [][(/\ CallStep
        /\ call'.op = "addMessage"
        /\ call'.raised = {}
        /\ ret'.status = "ok"
        /\ \E i \in 1..Len(_getSessionsList(localStorage)) :
              _getSessionsList(localStorage)[i].id = call'.sessionId) =>
        LET i == FindIndex(_getSessionsList(localStorage), call'.sessionId)
            session == _getSessionsList(localStorage')[i]
            message == call'.message[1]
        IN  /\ session.previewText =
                 PreviewOfCutText(OrText(message.content, message.text))
            /\ session.lastActivity = now
    ]_vars

\* The operations of the History Service that take a session id, and those of
\* the Agent State Storage that take a checkpoint id.
SessionIdOps ==
    {"addMessage", "getRecentMessages", "deleteSession", "renameSession",
     "clearSessionHistory", "getThreadTree", "searchMessages"}
CheckpointIdOps == {"agentRetrieveCheckpoint", "deleteCheckpoint"}

\* C14 as stated: a call of a History Service operation without its session id,
\* or of an Agent State Storage operation without its checkpoint id, fails with
\* an error instead of returning a normal result.
C14_MissingIdFailsTheCall ==
    (\/ call.op \in SessionIdOps /\ call.sessionId = NULL
     \/ call.op \in CheckpointIdOps /\ call.checkpointId = NULL)
        => ret.status = "error"

\* The session ids other than id.
OtherSessionIds(id) == HistorySessionIds \ {id}

\* C18 as stated: deleteSession(id) on an id of the session list returns true,
\* leaves no entry with that id in the list, removes the session's message-log
\* key, and changes neither the list entry nor the message log of any other
\* session.
C18_DeleteRemovesOnlyThatSession ==
    [][(/\ CallStep
        /\ call'.op = "deleteSession"
        /\ call'.sessionId # NULL
        /\ FindIndex(_getSessionsList(localStorage), call'.sessionId) # 0) =>
        /\ ret'.status = "ok"
        /\ ret'.value = TRUE
        /\ FindIndex(_getSessionsList(localStorage'), call'.sessionId) = 0
        /\ localStorage'[_getSessionKey(call'.sessionId)] = NULL
        /\ _getSessionsList(localStorage') =
               Filter(_getSessionsList(localStorage), call'.sessionId)
        /\ Kept({_getSessionKey(id) : id \in OtherSessionIds(call'.sessionId)})
    ]_vars

\* C19: deleteSession on an id that is not in the session list (a missing id
\* included) returns false and changes neither the session list key nor any
\* session's message-log key.
C19_DeleteOfUnknownIdChangesNothing ==
    [][(/\ CallStep
        /\ call'.op = "deleteSession"
        /\ \/ call'.sessionId = NULL
           \/ FindIndex(_getSessionsList(localStorage), call'.sessionId) = 0) =>
        /\ ret'.status = "ok"
        /\ ret'.value = FALSE
        /\ Kept(HistoryKeys)
    ]_vars

\* deleteSession returned false for session "1", whose message log is stored
\* although the session list does not hold it.
C19_Witness ==
    /\ call.op = "deleteSession"
    /\ call.sessionId = toString(1)
    /\ ret.value = FALSE
    /\ FindIndex(_getSessionsList(localStorage), toString(1)) = 0
    /\ localStorage[_getSessionKey(toString(1))] # NULL

\* C20: renameSession with an empty or whitespace-only newName returns null and
\* changes no storage key, whether or not the session exists.
C20_BlankNameChangesNothing ==
    [][(/\ CallStep
        /\ call'.op = "renameSession"
        /\ Trim(call'.newName) = <<>>) =>
        /\ ret'.status = "ok"
        /\ ret'.value = NULL
        /\ Kept(Keys)
    ]_vars

\* renameSession of the stored session "1" to a whitespace-only name returned
\* null.
C20_Witness ==
    /\ call.op = "renameSession"
    /\ call.sessionId = toString(1)
    /\ call.newName = <<" ">>
    /\ ret.value = NULL
    /\ FindIndex(_getSessionsList(localStorage), toString(1)) # 0

\* How often m occurs in seq.
Occurrences(seq, m) == Cardinality({i \in 1..Len(seq) : seq[i] = m})

NewestFirst(seq) ==
    \A i \in 1..Len(seq), j \in 1..Len(seq) : i < j => seq[i].timestamp >= seq[j].timestamp

OldestFirst(seq) ==
    \A i \in 1..Len(seq), j \in 1..Len(seq) : i < j => seq[i].timestamp <= seq[j].timestamp

\* The field holds a string that contains the keyword, letter case ignored.
FieldContains(field, keyword) ==
    field # NULL /\ Includes(toLowerCase(field[1]), toLowerCase(keyword))

\* C11 as stated: for a non-empty keyword, searchMessages(keyword, sessionId)
\* returns exactly the messages of the session's log whose content field or
\* text field contains the keyword, compared case-insensitively, newest first
\* by timestamp.
C11_SearchFindsContentOrText ==
    (/\ call.op = "searchMessages"
     /\ call.sessionId # NULL
     /\ call.keyword # NULL
     /\ call.keyword[1] # <<>>) =>
        LET log == _getMessages(localStorage, call.sessionId)
            hit(m) == \/ FieldContains(m.content, call.keyword[1])
                      \/ FieldContains(m.text, call.keyword[1])
        IN  /\ ret.status = "ok"
            /\ \A m \in Range(log) \cup Range(ret.value) :
                  Occurrences(ret.value, m) = IF hit(m) THEN Occurrences(log, m) ELSE 0
            /\ NewestFirst(ret.value)

\* C12: for every log and every limit >= 0 (10 when omitted),
\* getRecentMessages(sessionId, limit) returns min(limit, n) messages of the
\* log, no message left out is newer than a returned one, and the returned
\* messages are in ascending order of timestamp.
C12_RecentAreTheLatestOldestFirst ==
    (/\ call.op = "getRecentMessages"
     /\ call.sessionId # NULL
     /\ OrElse(call.limit, DefaultLimit) >= 0) =>
        LET log == _getMessages(localStorage, call.sessionId)
            limit == OrElse(call.limit, DefaultLimit)
        IN  /\ ret.status = "ok"
            /\ Len(ret.value) = Min(limit, Len(log))
            /\ \A m \in Range(ret.value) :
                  Occurrences(ret.value, m) <= Occurrences(log, m)
            /\ \A m \in Range(log) :
                  Occurrences(ret.value, m) < Occurrences(log, m) =>
                      \A r \in Range(ret.value) : m.timestamp <= r.timestamp
            /\ OldestFirst(ret.value)

\* The example of the claim, with the timestamps 1, 2, 3: limit 2 gave the
\* messages of the timestamps 2 and 3, in this order.
C12_Witness ==
    /\ call.op = "getRecentMessages"
    /\ call.limit = Item(2)
    /\ call.sessionId # NULL
    /\ Len(_getMessages(localStorage, call.sessionId)) = 3
    /\ [i \in 1..3 |-> _getMessages(localStorage, call.sessionId)[i].timestamp] = <<1, 2, 3>>
    /\ [i \in 1..Len(ret.value) |-> ret.value[i].timestamp] = <<2, 3>>

\* C15 as stated: retrieveMessageById(id) fails with the not-found error
\* exactly when the message list was read and parsed and holds no message with
\* the id, and a list that cannot be parsed makes it fail with the wrapped
\* storage-failure error.
C15_NotFoundOnlyAfterASuccessfulRead ==
    call.op = "retrieveMessageById" =>
        LET item == getItem(localStorage, messagesKey)
            messages == IF IsUnparsable(item) THEN <<>> ELSE OrElse(item, <<>>)
            absent == \A i \in 1..Len(messages) : ~LooseEquals(messages[i].id, call.id)
            notFound == ret.status = "error" /\ ret.value = Item(NotFoundError)
        IN  /\ notFound <=> (~IsUnparsable(item) /\ absent)
            /\ IsUnparsable(item) =>
                  (ret.status = "error" /\ ret.value = Item(WrappedError))

\* localStorage with the key holding the text of the empty array.
WithEmptyList(key) == setItem(localStorage, key, <<>>)

\* C16: when the text under a session's checkpoint key or message-log key does
\* not parse, listCheckpoint, retrieveCheckpoint, getRecentMessages and
\* searchMessages complete without error and return what they return when the
\* key holds an empty collection.
C16_UnparsableTextReadsAsEmpty ==
    /\ (/\ call.op \in {"listCheckpoint", "retrieveCheckpoint"}
        /\ call.sessionId # NULL
        /\ IsUnparsable(getItem(localStorage, _getStorageKey(call.sessionId)))) =>
          /\ ret.status = "ok"
          /\ call.op = "listCheckpoint" =>
                ret = Return(listCheckpoint(WithEmptyList(_getStorageKey(call.sessionId)),
                                            call.sessionId))
          /\ call.op = "retrieveCheckpoint" =>
                ret = Return(retrieveCheckpoint(WithEmptyList(_getStorageKey(call.sessionId)),
                                                call.idOrIdx, call.sessionId))
    /\ (/\ call.op \in {"getRecentMessages", "searchMessages"}
        /\ call.sessionId # NULL
        /\ IsUnparsable(getItem(localStorage, _getSessionKey(call.sessionId)))) =>
          /\ ret.status = "ok"
          /\ call.op = "getRecentMessages" =>
                ret = Return(getRecentMessages(WithEmptyList(_getSessionKey(call.sessionId)),
                                               call.sessionId, call.limit))
          /\ call.op = "searchMessages" =>
                ret = Return(searchMessages(WithEmptyList(_getSessionKey(call.sessionId)),
                                            call.keyword, call.sessionId))

\* searchMessages with a non-empty keyword returned [] from a log whose text
\* does not parse.
C16_Witness ==
    /\ call.op = "searchMessages"
    /\ call.keyword = Item(<<"a">>)
    /\ call.sessionId # NULL
    /\ IsUnparsable(getItem(localStorage, _getSessionKey(call.sessionId)))
    /\ ret = [status |-> "ok", value |-> <<>>]

\* C17 as stated: the title of the session storeChat auto-creates is a prefix
\* of the content of the last request message, at most 100 characters long and
\* cut where the content has a whitespace character or ends; it is "New Chat"
\* when request.messages is empty or absent.
C17_TitleIsPrefixCutAtWordBoundary ==
    (/\ call.op = "storeChat"
     /\ call.currentMessage.sessionId = 0
     /\ ret.status = "ok") =>
        LET title == StoredSessions[Len(StoredSessions)].title
            content == lastContent(call.request)
        IN  /\ (call.request.messages = NULL \/ call.request.messages = Item(<<>>)) =>
                  title = NewChat
            /\ content # NULL =>
                  /\ Len(title) <= TitleLimit
                  /\ Len(title) <= Len(content[1])
                  /\ title = SubSeq(content[1], 1, Len(title))
                  /\ \/ Len(title) = Len(content[1])
                     \/ IsSpace(content[1][Len(title) + 1])

\* C13: when the storeChat calls of two pages on the same storage prefix
\* interleave at their storage reads and writes, both return a message, and the
\* stored message list is the list the page that wrote last had read, followed
\* by that page's message: the message of the other page is in it only if it
\* was written before that read.
C13_LastWriterOverwritesTheList ==
    (\A tab \in Tabs : tabs[tab].pc = "returned") =>
        /\ \A tab \in Tabs : tabs[tab].message # NULL
        /\ \A tab \in Tabs :
              tabs[tab].wroteAfterOther =>
                  /\ StoredChatMessages = Append(tabs[tab].messages, tabs[tab].message[1])
                  /\ tabs[OtherTab(tab)].message[1] \in Range(StoredChatMessages)
                        <=> tabs[OtherTab(tab)].message[1] \in Range(tabs[tab].messages)
        /\ \E tab \in Tabs : tabs[tab].wroteAfterOther

\* The lost update: both calls returned a message, and the stored list holds
\* the message of page 2 only.
C13_Witness ==
    /\ \A tab \in Tabs : tabs[tab].pc = "returned" /\ tabs[tab].message # NULL
    /\ StoredChatMessages = <<tabs[2].message[1]>>
    /\ tabs[1].message[1] \notin Range(StoredChatMessages)

-----------------------------------------------------------------------------
(* Properties: Checkpoint Service, calls without a session id or a message *)

CheckpointServiceOps ==
    {"createCheckpoint", "retrieveCheckpoint", "listCheckpoint", "clearAllCheckpoints"}

\* C24: a call of createCheckpoint, retrieveCheckpoint, listCheckpoint or
\* clearAllCheckpoints without a session id, and a call of createCheckpoint
\* without a currentMessage, completes with an error and leaves every storage
\* key as it was.
C24_MissingSessionIdOrMessageIsAnError ==
    [][(/\ CallStep
        /\ call'.op \in CheckpointServiceOps
        /\ \/ call'.sessionId = NULL
           \/ call'.op = "createCheckpoint" /\ call'.currentMessage = NULL) =>
        /\ ret'.status = "error"
        /\ localStorage' = localStorage
    ]_vars

\* createCheckpoint was called for a session that has a checkpoint, without a
\* currentMessage, and failed; and so did a clearAllCheckpoints without a
\* session id.
C24_Witness ==
    /\ \E sessionId \in CheckpointSessionIds : StoredCheckpoints(sessionId) # <<>>
    /\ ret.status = "error"
    /\ \/ /\ call.op = "createCheckpoint"
          /\ call.sessionId # NULL
          /\ call.currentMessage = NULL
       \/ /\ call.op = "clearAllCheckpoints"
          /\ call.sessionId = NULL

\* The elements of list that are newer than, and not older than, checkpoint e.
NewerThan(list, e) == {i \in 1..Len(list) : list[i].timestamp > e.timestamp}
NotOlderThan(list, e) == {i \in 1..Len(list) : list[i].timestamp >= e.timestamp}

\* e stands at zero-based position n when list is put in newest-first order.
AtNewestFirstIndex(list, e, n) ==
    /\ e \in Range(list)
    /\ Cardinality(NewerThan(list, e)) <= n
    /\ n < Cardinality(NotOlderThan(list, e))

\* C23: retrieveCheckpoint(idOrIdx, sessionId) with a session id completes
\* without error.  A number is a zero-based index into the session's checkpoints
\* in newest-first timestamp order, any other value is an exact id; the result
\* is null when the index is negative or past the end, when no checkpoint has
\* the id, and when the list is empty.
C23_NumberIsIndexNewestFirstElseId ==
    (call.op = "retrieveCheckpoint" /\ call.sessionId # NULL) =>
        LET list == StoredCheckpoints(call.sessionId)
            n == call.idOrIdx.n
        IN  /\ ret.status = "ok"
            /\ call.idOrIdx.type = "number" =>
                  IF n >= 0 /\ n < Len(list)
                  THEN ret.value # NULL /\ AtNewestFirstIndex(list, ret.value[1], n)
                  ELSE ret.value = NULL
            /\ call.idOrIdx.type = "string" =>
                  IF \E i \in 1..Len(list) : list[i].id = call.idOrIdx.s
                  THEN /\ ret.value # NULL
                       /\ ret.value[1] \in Range(list)
                       /\ ret.value[1].id = call.idOrIdx.s
                  ELSE ret.value = NULL

\* Index 1 of a list stored oldest first returned the older, first stored
\* checkpoint.
C23_Witness ==
    /\ call.op = "retrieveCheckpoint"
    /\ call.idOrIdx = NumberArg(1)
    /\ call.sessionId # NULL
    /\ Len(StoredCheckpoints(call.sessionId)) = 2
    /\ StoredCheckpoints(call.sessionId)[1].timestamp
          < StoredCheckpoints(call.sessionId)[2].timestamp
    /\ ret.value = Item(StoredCheckpoints(call.sessionId)[1])

\* The checkpoints that the createCheckpoint calls for the session returned
\* since the session's last clearAllCheckpoints, in call order.
CreatedSinceClear(sessionId) ==
    [i \in 1..Len(createdLog[sessionId]) |-> createdLog[sessionId][i].checkpoint]

\* Every element is as many times in a as in b.
SameElements(a, b) ==
    \A e \in Range(a) \cup Range(b) : Occurrences(a, e) = Occurrences(b, e)

\* C25 as stated: listCheckpoint(sessionId) returns the checkpoints created for
\* the session since its last clearAllCheckpoints, each of them once, in
\* non-increasing timestamp order.
C25_ListIsEveryCreatedCheckpointNewestFirst ==
    (call.op = "listCheckpoint" /\ call.sessionId # NULL) =>
        /\ ret.status = "ok"
        /\ SameElements(ret.value, CreatedSinceClear(call.sessionId))
        /\ NewestFirst(ret.value)

\* What listCheckpoint(sessionId) returns on storage ls.
Listed(ls, sessionId) == listCheckpoint(ls, sessionId).value

\* C26 as stated: a createCheckpoint or clearAllCheckpoints call for a session
\* leaves what listCheckpoint returns for every other session as it was, and
\* after a clearAllCheckpoints call for a session listCheckpoint returns the
\* empty list for it.
C26_SessionsAreIsolatedAndClearEmpties ==
    [][(/\ CallStep
        /\ call'.op \in {"createCheckpoint", "clearAllCheckpoints"}
        /\ call'.sessionId # NULL) =>
        /\ \A other \in BothSessionIds \ {call'.sessionId} :
              Listed(localStorage', other) = Listed(localStorage, other)
        /\ (call'.op = "clearAllCheckpoints" /\ ret'.status = "ok") =>
              Listed(localStorage', call'.sessionId) = <<>>
    ]_vars

-----------------------------------------------------------------------------
(* Properties: Message Store, calls with a session id and the stored lists *)

CountersOf(ls) == OrElse(getItem(ls, countersKey), EmptyCounters)

\* C27: a storeChat call whose currentMessage carries a sessionId leaves the
\* stored session list and the sessionId counter as they were; once it returns
\* its message, the stored message list is the list of before with that one
\* message appended, and the message's sessionId is the given one.
C27_GivenSessionIdCreatesNoSession ==
    [][(/\ CallStep
        /\ call'.op = "storeChat"
        /\ call'.currentMessage.sessionId # 0) =>
        /\ localStorage'[sessionsKey] = localStorage[sessionsKey]
        /\ CountersOf(localStorage').sessionId = CountersOf(localStorage).sessionId
        /\ ret'.status = "ok" =>
              /\ OrElse(getItem(localStorage', messagesKey), <<>>) =
                    Append(OrElse(getItem(localStorage, messagesKey), <<>>), ret'.value[1])
              /\ ret'.value[1].sessionId = call'.currentMessage.sessionId
    ]_vars

\* A call without a sessionId created session 1 and a later call with
\* sessionId 1 returned: one session, two messages of that session.
C27_Witness ==
    /\ call.op = "storeChat"
    /\ call.currentMessage.sessionId = 1
    /\ ret.status = "ok"
    /\ Len(StoredSessions) = 1
    /\ Len(StoredChatMessages) = 2
    /\ \A i \in 1..2 : StoredChatMessages[i].sessionId = 1
    /\ CountersOf(localStorage).sessionId = 2

IsPrefix(a, b) == Len(a) <= Len(b) /\ SubSeq(b, 1, Len(a)) = a

SessionsOf(ls) == OrElse(getItem(ls, sessionsKey), <<>>)
MessagesOf(ls) == OrElse(getItem(ls, messagesKey), <<>>)

RetrieveOps == {"retrieveMessageById", "retrieveMessagesBySession", "retrieveAllSessions"}

\* C28: a storeChat call or a retrieve call of the store leaves every stored
\* session and message record in place, unchanged and at its position: the
\* lists of before are prefixes of the lists of after, and a retrieve call
\* leaves both lists as they are.  Only clearAllData takes records away.
C28_ListsGrowOnlyByAppending ==
    [][(CallStep /\ call'.op \in RetrieveOps \cup {"storeChat"}) =>
        /\ IsPrefix(SessionsOf(localStorage), SessionsOf(localStorage'))
        /\ IsPrefix(MessagesOf(localStorage), MessagesOf(localStorage'))
        /\ call'.op \in RetrieveOps => localStorage' = localStorage
    ]_vars

\* Two sessions and three messages are stored in the order of their ids, and
\* the last call returned the two messages of session 1.
C28_Witness ==
    /\ call.op = "retrieveMessagesBySession"
    /\ ret.status = "ok"
    /\ Len(ret.value) = 2
    /\ Len(StoredSessions) = 2
    /\ Len(StoredChatMessages) = 3
    /\ \A i \in 1..2 : StoredSessions[i].id = i
    /\ \A i \in 1..3 : StoredChatMessages[i].id = i

-----------------------------------------------------------------------------
(* Properties: Agent State Storage *)

StoredAgentCheckpoints == _getAllCheckpoints(localStorage)

\* C29 as stated, for a storeCheckpoint(c) whose write took effect and before
\* any delete or clear: retrieveCheckpoint of the id the call returned gives a
\* record with the agentId, name and state of c.
C29_RetrieveReturnsWhatWasStored ==
    (call.op = "storeCheckpoint" /\ call.raised = {}) =>
        LET r == agentRetrieveCheckpoint(localStorage, ret.value)
        IN  /\ r.value # NULL
            /\ r.value[1].agentId = call.checkpoint.agentId
            /\ r.value[1].name = call.checkpoint.name
            /\ r.value[1].state = call.checkpoint.state

\* C30 as stated: deleteCheckpoint(id) returns true exactly when a checkpoint
\* with the id was stored before the call; after the call no stored checkpoint
\* has the id and the other checkpoints are stored unchanged, in their order;
\* a call that returns false writes no storage key.
C30_DeleteReportsAndRemovesTheCheckpoint ==
    [][(CallStep /\ call'.op = "deleteCheckpoint") =>
        LET before == _getAllCheckpoints(localStorage)
            after == _getAllCheckpoints(localStorage')
        IN  /\ ret'.status = "ok"
            /\ ret'.value = TRUE <=> FindIndex(before, call'.checkpointId) # 0
            /\ FindIndex(after, call'.checkpointId) = 0
            /\ after = Filter(before, call'.checkpointId)
            /\ ret'.value = FALSE => localStorage' = localStorage
    ]_vars

-----------------------------------------------------------------------------
(* Properties: Chat History Service, the session list *)

HistorySessions == _getSessionsList(localStorage)

NewestCreatedFirst(sessions) ==
    \A i, j \in 1..Len(sessions) : i < j => sessions[i].createdAt >= sessions[j].createdAt

\* C21 as stated: createSession puts the session it returns at the head of the
\* stored session list, before the sessions that were stored, and stores an
\* empty message log under the session's id; and in every state that
\* createSession, renameSession, addMessage and deleteSession calls lead to the
\* stored list is in non-increasing createdAt order.
C21_NewSessionAtHeadNewestFirst ==
    /\ [](NewestCreatedFirst(HistorySessions))
    /\ [][(CallStep /\ call'.op = "createSession") =>
            /\ ret'.status = "ok"
            /\ _getSessionsList(localStorage') =
                  <<ret'.value[1]>> \o _getSessionsList(localStorage)
            /\ localStorage'[_getSessionKey(ret'.value[1].id)] = Item(<<>>)
       ]_vars

NewestActivityFirst(sessions) ==
    \A i, j \in 1..Len(sessions) :
        i < j => sessions[i].lastActivity >= sessions[j].lastActivity

\* The last call renamed the session it named, or added a message to it, and
\* returned normally; CallTime is the time of that call, which the renamed
\* session and the message stored without a timestamp of its own carry.
JustRenamedOrWritten ==
    \/ call.op = "renameSession" /\ ret.status = "ok" /\ ret.value # NULL
    \/ /\ call.op = "addMessage" /\ ret.status = "ok"
       /\ call.message[1].timestamp = 0
       /\ FindIndex(HistorySessions, call.sessionId) # 0
CallTime ==
    IF call.op = "renameSession" THEN ret.value[1].lastActivity ELSE ret.value[1].timestamp

-----------------------------------------------------------------------------
(* Properties: Chat History Service, search and the message logs *)

\* C31: searchMessages with the empty string as keyword, for a session id,
\* completes without error and returns the empty list, whatever the session's
\* log holds.
C31_EmptyKeywordFindsNothing ==
    (/\ call.op = "searchMessages"
     /\ call.sessionId # NULL
     /\ call.keyword = Item(<<>>)) =>
        /\ ret.status = "ok"
        /\ ret.value = <<>>

\* The empty keyword was searched for in a log of three messages.
C31_Witness ==
    /\ call.op = "searchMessages"
    /\ call.sessionId # NULL
    /\ call.keyword = Item(<<>>)
    /\ Len(_getMessages(localStorage, call.sessionId)) = 3
    /\ ret.value = <<>>

\* The ids of the sessions in the stored session list.
ListedSessionIds(ls) ==
    {_getSessionsList(ls)[i].id : i \in 1..Len(_getSessionsList(ls))}

\* C32 as stated: a createSession call leaves the stored message log of every
\* session that is in the stored session list as it was, also when the call
\* comes in the millisecond in which an earlier session was created.
C32_CreateSessionKeepsOtherLogs ==
    [][(CallStep /\ call'.op = "createSession") =>
        \A id \in ListedSessionIds(localStorage) :
            _getMessages(localStorage', id) = _getMessages(localStorage, id)
    ]_vars

\* C33 as stated: every record of the stored message log of a session carries
\* that session's id as its sessionId, whatever fields the message passed to
\* addMessage carried.
C33_LoggedMessagesCarryTheSessionId ==
    \A id \in HistorySessionIds :
        \A m \in Range(_getMessages(localStorage, id)) : m.sessionId = id

\* C34 as stated, for the states that a call whose writes all took effect
\* leaves behind: every message-log key that exists is the key of a session
\* whose id is in the stored session list.
C34_NoMessageLogWithoutSession ==
    call.raised = {} =>
        \A id \in HistorySessionIds :
            localStorage[_getSessionKey(id)] # NULL => id \in ListedSessionIds(localStorage)


(***************************************************************************)
(* Properties: checkpoint round trip by id                                 *)
(***************************************************************************)

SameCheckpointContent(a, b) ==
    /\ a.label = b.label
    /\ a.messageId = b.messageId
    /\ a.currentMessage = b.currentMessage

\* C35 as stated, for a createCheckpoint whose write took effect: right after
\* createCheckpoint(label, m, s) returned cp, retrieveCheckpoint(cp.id, s)
\* returns a checkpoint with the label, messageId and currentMessage of cp.
C35_RetrieveByIdReturnsTheCreatedCheckpoint ==
    (/\ call.op = "createCheckpoint"
     /\ ret.status = "ok"
     /\ call.raised = {}) =>
        LET cp == ret.value[1]
            r == retrieveCheckpoint(localStorage, StringArg(cp.id), call.sessionId)
        IN  /\ r.status = "ok"
            /\ r.value # NULL
            /\ SameCheckpointContent(r.value[1], cp)


(***************************************************************************)
(* Properties: Agent State Storage, checkpoint ids                         *)
(***************************************************************************)

\* C36 as stated: the checkpoints of the stored list have pairwise distinct
\* ids.
C36_StoredAgentCheckpointIdsAreDistinct ==
    \A i, j \in 1..Len(StoredAgentCheckpoints) :
        StoredAgentCheckpoints[i].id = StoredAgentCheckpoints[j].id => i = j


(***************************************************************************)
(* Properties: Message Store, the session of a stored message              *)
(***************************************************************************)

\* C37 as stated: the sessionId of every stored message is the id of a
\* session of the stored session list.
C37_StoredMessagesBelongToStoredSessions ==
    \A m \in Range(MessagesOf(localStorage)) :
        \E s \in Range(SessionsOf(localStorage)) : s.id = m.sessionId


(***************************************************************************)
(* Properties: Message Store, ids under two interleaved storeChat calls    *)
(***************************************************************************)

DistinctIds(list) ==
    \A i, j \in 1..Len(list) : list[i].id = list[j].id => i = j

\* The two pages' storeChat calls have both returned a message.
BothReturned == \A tab \in Tabs : tabs[tab].pc = "returned"

\* C38 as stated: the messages returned by the two interleaved storeChat calls
\* have different ids, the stored messages have pairwise different ids, and so
\* have the stored sessions (and the sessions the two calls created).
C38_InterleavedCallsGetDistinctIds ==
    /\ BothReturned => tabs[1].message[1].id # tabs[2].message[1].id
    /\ DistinctIds(MessagesOf(localStorage))
    /\ DistinctIds(SessionsOf(localStorage))
    /\ (BothReturned /\ \A tab \in Tabs : tabs[tab].currentMessage[1].sessionId = 0)
           => tabs[1].sessionId # tabs[2].sessionId


(***************************************************************************)
(* The read operations of the four services, over what an earlier page     *)
(* load stored                                                             *)
(***************************************************************************)

\* A session of the History Service that was active after the others.
RecentSession == [StoredSession(toString(2)) EXCEPT !.lastActivity = 2]

\* A record as storeCheckpoint stores it.
StoredAgentCheckpoint(t) ==
    [id |-> <<"a">> \o <<"_">> \o toString(t), agentId |-> <<"a">>,
     name |-> <<"n">>, state |-> 1, createdAt |-> t]
StoredAgentLists ==
    {NULL, Unparsable(BrokenText)}
        \cup {Item(l) : l \in { <<>>, <<StoredAgentCheckpoint(1)>>,
                                <<StoredAgentCheckpoint(1), StoredAgentCheckpoint(2)>> }}

\* The lists are stored in the order of their creation, which is not the
\* order the list operations return.
AllStoredStorages(s) ==
    IF s = "MessageStore"
    THEN {[st EXCEPT ![sessionsKey] = Item(sessions)] :
            st \in StoredStorages(s),
            sessions \in {<<>>, <<[id |-> 1, title |-> <<"a", " ", "b">>]>>}}
    ELSE IF s = "HistoryService"
    THEN StoredStorages(s) \cup
         {[EmptyStorage EXCEPT
              ![sessionsListKey] = Item(sessions),
              ![_getSessionKey(toString(1))] = Item(<<StoredMessage(toString(1))>>)] :
            sessions \in StoredSessionLists
                            \cup {<<StoredSession(toString(1)), RecentSession>>}}
    ELSE IF s = "AgentStateStorage"
    THEN {[EmptyStorage EXCEPT ![agentCheckpointsKey] = l] : l \in StoredAgentLists}
    ELSE StoredStorages(s)

InitAllStored ==
    /\ service \in Services
    /\ now = 1
    /\ localStorage \in AllStoredStorages(service)
    /\ call = NoCall
    /\ ret = NoRet
    /\ allocated = NoIds
    /\ createdLog = NoLog
    /\ callerMessage = [id |-> 1, content |-> StringValue(Str_Hi)]
    /\ tabs = NoTabs

NextAllReads ==
    \/ RetrieveMessageById
    \/ RetrieveMessagesBySession
    \/ RetrieveAllSessions
    \/ ListSessions
    \/ GetRecentMessages
    \/ GetThreadTree
    \/ GetChatHistoryByMessageId
    \/ SearchMessages
    \/ RetrieveStoredCheckpoint
    \/ ListCheckpoint
    \/ AgentRetrieveCheckpoint
    \/ AgentListCheckpoints

SpecAllReads == InitAllStored /\ [][NextAllReads]_vars

ReadOps ==
    {"retrieveMessageById", "retrieveMessagesBySession", "retrieveAllSessions",
     "listSessions", "getRecentMessages", "getThreadTree",
     "getChatHistoryByMessageId", "searchMessages", "retrieveCheckpoint",
     "listCheckpoint", "agentRetrieveCheckpoint", "agentListCheckpoints"}

\* C39: a call of a read operation of any of the four services leaves every
\* storage key as it was, the stored order of the lists it sorts included.
C39_ReadsLeaveStorageUnchanged ==
    [][(CallStep /\ call'.op \in ReadOps) => localStorage' = localStorage]_vars

\* A list operation has returned two checkpoints newest first while the stored
\* list holds them oldest first.
C39_Witness ==
    /\ call.op = "listCheckpoint"
    /\ ret.status = "ok"
    /\ Len(ret.value) = 2
    /\ ret.value[1].timestamp > ret.value[2].timestamp
    /\ ret.value = Reverse(_getCheckpoints(localStorage, call.sessionId))

=============================================================================
